---- MODULE Spec2Model ----
(***************************************************************************)
(* Model of the deterministic Model-2 pipeline (src/model2/pipeline) and   *)
(* of its orchestrator (src/model2/model2_runner.py): the guardrail        *)
(* sanitizer, the probable-cause ranker, the confidence aggregator, the    *)
(* severity classifier, the pattern engine, the loader and run().  Each    *)
(* component of the pipeline is a pure function of its arguments and gets  *)
(* a specification whose initial states draw the arguments from bounded    *)
(* sets and whose action applies the function; run() is a sequence of      *)
(* steps over the files it reads and writes.                               *)
(*                                                                         *)
(* Text is modelled as a sequence of one-character strings, so lower() and *)
(* the substring test `t in v.lower()` are computed character by           *)
(* character.  Decimal numbers are modelled as integers counted in         *)
(* thousandths (1.0 is 1000), with Python's round(x, 3) as rounding of an  *)
(* exact quotient to the nearest thousandth, ties to the even one.         *)
(***************************************************************************)
EXTENDS Integers, Sequences, FiniteSets, TLC

VARIABLES
    pc,         \* "start" before the call under study, "done" after it
    output0,    \* guardrails: the document handed to sanitize_output, as it was before the call
    output,     \* guardrails: the caller's document object (nested containers are shared with the copy)
    cleaned,    \* guardrails: the document sanitize_output returns
    kg,         \* probable causes: the knowledge graph's edge table
    observations, \* probable causes: the observation tokens, in input order
    priors,     \* probable causes: cause -> prior weight
    probable,   \* probable causes: what infer_probable_causes returns
    params,     \* confidence: parameter name -> value or None
    patterns,   \* confidence: pattern name -> {present, severity}
    probable_causes, \* confidence: the causes list handed to compute_confidence
    missing_params,  \* confidence: the names of the missing parameters
    confidence, \* confidence: what compute_confidence returns
    ref,        \* severity: the reference range (low, high) of the parameter, or None
    value,      \* severity: the value to classify
    label,      \* severity: what label_from_range returns
    flat_params, \* pattern engine: the parameter map handed to detect_patterns
    detected,   \* pattern engine: what detect_patterns returns
    input_file, \* loader: the input file, its extension and its content
    loaded,     \* loader: what load_input returns, or the exception it raises
    files,      \* runner: the files on disk (inputs, outputs, error log)
    run,        \* runner: the local variables of the call of run() in progress
    calls       \* runner: the finished calls of run(), in order, with their outcomes

guardVars == <<output0, output, cleaned>>
causeVars == <<kg, observations, priors, probable>>
confVars == <<params, patterns, probable_causes, missing_params, confidence>>
sevVars == <<ref, value, label>>
patVars == <<flat_params, detected>>
loadVars == <<input_file, loaded>>
runVars == <<files, run, calls>>
vars == <<pc, guardVars, causeVars, confVars, sevVars, patVars, loadVars, runVars>>

None == [t |-> "none"]

GuardIdle == output0 = None /\ output = None /\ cleaned = None
CauseIdle == kg = None /\ observations = None /\ priors = None /\ probable = None
ConfIdle ==
    /\ params = None /\ patterns = None /\ probable_causes = None
    /\ missing_params = None /\ confidence = None
SevIdle == ref = None /\ value = None /\ label = None
PatIdle == flat_params = None /\ detected = None
LoadIdle == input_file = None /\ loaded = None
RunIdle == files = None /\ run = None /\ calls = None

----------------------------------------------------------------------------
(* Numbers, in thousandths *)

ONE == 1000

Min(a, b) == IF a <= b THEN a ELSE b

\* n/d (n >= 0, d > 0) rounded to the nearest integer, ties to the even one.
RoundDiv(n, d) ==
    LET q == n \div d
        r == n % d
    IN IF 2 * r < d THEN q
       ELSE IF 2 * r > d THEN q + 1
       ELSE IF q % 2 = 0 THEN q ELSE q + 1

\* A value that is a number, None, or text that is no number.
Num(n)  == [kind |-> "num",  n |-> n]
NoValue == [kind |-> "none", n |-> 0]
NotANumber == [kind |-> "text", n |-> 0]

----------------------------------------------------------------------------
(* Text *)

UpperCase == <<"A","B","C","D","E","F","G","H","I","J","K","L","M",
               "N","O","P","Q","R","S","T","U","V","W","X","Y","Z">>
LowerCase == <<"a","b","c","d","e","f","g","h","i","j","k","l","m",
               "n","o","p","q","r","s","t","u","v","w","x","y","z">>

LowerChar(c) ==
    IF \E i \in DOMAIN UpperCase : UpperCase[i] = c
    THEN LowerCase[CHOOSE i \in DOMAIN UpperCase : UpperCase[i] = c]
    ELSE c

\* str.lower()
Lower(s) == [i \in DOMAIN s |-> LowerChar(s[i])]

\* `t in s` for two strings
Contains(t, s) ==
    \E i \in 0..(Len(s) - Len(t)) : SubSeq(s, i + 1, i + Len(t)) = t

----------------------------------------------------------------------------
(* guardrails.py *)

FORBIDDEN_TERMS ==
    << <<"p","r","e","s","c","r","i","b","e">>,
       <<"d","o","s","a","g","e">>,
       <<"d","o","s","e">>,
       <<"r","e","c","o","m","m","e","n","d"," ","m","e","d","i","c","a","t","i","o","n">>,
       <<"s","t","a","r","t"," ","m","e","t","f","o","r","m","i","n">>,
       <<"s","t","a","r","t"," ","s","t","a","t","i","n">> >>

REDACTED ==
    <<"[","R","E","D","A","C","T","E","D","_","B","Y","_",
      "G","U","A","R","D","R","A","I","L","S","]">>

\* A JSON-shaped value: a string, a dict, a list, or anything else (None, a
\* number, a bool).  All four share one record shape.
StrVal(s)   == [t |-> "str",   s |-> s,    items |-> <<>>, elems |-> <<>>]
OtherVal    == [t |-> "other", s |-> <<>>, items |-> <<>>, elems |-> <<>>]
DictVal(f)  == [t |-> "dict",  s |-> <<>>, items |-> f,    elems |-> <<>>]
ListVal(q)  == [t |-> "list",  s |-> <<>>, items |-> <<>>, elems |-> q]

RECOMMENDATIONS == "recommendations"
RECOMMENDATIONS_REMOVED == "recommendations_removed_by_guardrails"

\* Mutant of HasForbiddenTerm: the test `t in v`, without lower().
HasForbiddenTermCaseSensitive(v) ==
    \E i \in DOMAIN FORBIDDEN_TERMS : Contains(FORBIDDEN_TERMS[i], v)

\* `for t in FORBIDDEN_TERMS: if t in v.lower()`
HasForbiddenTerm(v) ==
    \E i \in DOMAIN FORBIDDEN_TERMS : Contains(FORBIDDEN_TERMS[i], Lower(v))

\* The walk when a value that is neither a string, a dict nor a list is
\* turned into its text before the test.
RECURSIVE sanitize_obj_stringifying(_)
sanitize_obj_stringifying(o) ==
    IF o.t = "dict"
    THEN DictVal([k \in DOMAIN o.items |->
            IF o.items[k].t = "str"
            THEN IF HasForbiddenTerm(o.items[k].s) THEN StrVal(REDACTED) ELSE o.items[k]
            ELSE IF o.items[k].t = "other" THEN StrVal(<<>>)
            ELSE sanitize_obj_stringifying(o.items[k])])
    ELSE IF o.t = "list"
    THEN ListVal([i \in DOMAIN o.elems |-> sanitize_obj_stringifying(o.elems[i])])
    ELSE o

\* The walk when a string with a forbidden term loses its first character
\* instead of being replaced by the marker.
RECURSIVE sanitize_obj_truncating(_)
sanitize_obj_truncating(o) ==
    IF o.t = "dict"
    THEN DictVal([k \in DOMAIN o.items |->
            IF o.items[k].t = "str"
            THEN IF HasForbiddenTerm(o.items[k].s) THEN StrVal(Tail(o.items[k].s)) ELSE o.items[k]
            ELSE sanitize_obj_truncating(o.items[k])])
    ELSE IF o.t = "list"
    THEN ListVal([i \in DOMAIN o.elems |-> sanitize_obj_truncating(o.elems[i])])
    ELSE o

\* sanitize_obj(o): the object o after the in-place walk.  A string value of
\* a dict key is tested and replaced; every other value is walked; a walk
\* of anything but a dict or a list (a string element of a list included)
\* does nothing.
RECURSIVE sanitize_obj(_)
sanitize_obj(o) ==
    IF o.t = "dict"
    THEN DictVal([k \in DOMAIN o.items |->
            IF o.items[k].t = "str"
            THEN IF HasForbiddenTerm(o.items[k].s) THEN StrVal(REDACTED) ELSE o.items[k]
            ELSE sanitize_obj(o.items[k])])
    ELSE IF o.t = "list"
    THEN ListVal([i \in DOMAIN o.elems |-> sanitize_obj(o.elems[i])])
    ELSE o

\* cleaned = dict(output), then the rename of a top-level "recommendations".
RenameRecommendations(d) ==
    IF RECOMMENDATIONS \in DOMAIN d.items
    THEN DictVal([k \in (DOMAIN d.items \ {RECOMMENDATIONS}) \cup {RECOMMENDATIONS_REMOVED} |->
            IF k = RECOMMENDATIONS_REMOVED THEN d.items[RECOMMENDATIONS] ELSE d.items[k]])
    ELSE d

\* The document sanitize_output(o) returns.
sanitize_output(o) == sanitize_obj(RenameRecommendations(o))

\* The caller's document after sanitize_output(o): the top level was copied,
\* so its keys and its string values stay; every nested container that the
\* copy still holds is the same object and has been walked in place.
ArgumentAfter(o) ==
    LET kept == RenameRecommendations(o)
        Held(k) == IF k = RECOMMENDATIONS THEN RECOMMENDATIONS_REMOVED ELSE k
    IN DictVal([k \in DOMAIN o.items |->
            IF Held(k) \in DOMAIN kept.items /\ kept.items[Held(k)] = o.items[k]
            THEN (IF o.items[k].t = "str" THEN o.items[k] ELSE sanitize_obj(o.items[k]))
            ELSE o.items[k]])

\* Input documents: every document of at most MaxNodes nodes (containers and
\* leaves, the top-level dict not counted) over the sample leaves and keys.
MaxNodes == 3

SampleText ==
    { <<"o","k">>,
      <<"m","e","t","f","o","r","m","i","n">>,
      <<"S","t","a","r","t"," ","M","e","t","f","o","r","m","i","n">>,
      <<"o","v","e","r","D","O","S","E">> }

Leaves == {StrVal(s) : s \in SampleText} \cup {OtherVal}

TopKeys == {"notes", RECOMMENDATIONS, RECOMMENDATIONS_REMOVED}
NestedKeys == {"note", RECOMMENDATIONS}

RECURSIVE Size(_)
SumSize(q) ==
    LET RECURSIVE S(_)
        S(i) == IF i = 0 THEN 0 ELSE Size(q[i]) + S(i - 1)
    IN S(Len(q))
Size(v) ==
    IF v.t = "dict"
    THEN LET RECURSIVE S(_)
             S(K) == IF K = {} THEN 0
                     ELSE LET k == CHOOSE k \in K : TRUE
                          IN Size(v.items[k]) + S(K \ {k})
         IN 1 + S(DOMAIN v.items)
    ELSE IF v.t = "list" THEN 1 + SumSize(v.elems)
    ELSE 1

Extend(m, k, v) == [x \in DOMAIN m \cup {k} |-> IF x = k THEN v ELSE m[x]]

RECURSIVE Values(_), Lists(_), Dicts(_, _)
Values(n) ==
    IF n <= 0 THEN {}
    ELSE Leaves \cup {ListVal(q) : q \in Lists(n - 1)}
                \cup {DictVal(m) : m \in Dicts(n - 1, NestedKeys)}
Lists(n) ==
    {<<>>} \cup UNION {{<<v>> \o q : q \in Lists(n - Size(v))} : v \in Values(n)}
Dicts(n, K) ==
    IF K = {} THEN {<<>>}
    ELSE LET k == CHOOSE k \in K : TRUE
         IN Dicts(n, K \ {k}) \cup
            UNION {{Extend(m, k, v) : m \in Dicts(n - Size(v), K \ {k})} : v \in Values(n)}

Documents == {DictVal(m) : m \in Dicts(MaxNodes, TopKeys)}

InitGuard ==
    /\ pc = "start"
    /\ output0 \in Documents
    /\ output = output0
    /\ cleaned = None
    /\ CauseIdle /\ ConfIdle /\ SevIdle /\ PatIdle /\ LoadIdle /\ RunIdle

\* safe_output = sanitize_output(output)
Sanitize ==
    /\ pc = "start"
    /\ cleaned' = sanitize_output(output)
    /\ output' = ArgumentAfter(output)
    /\ pc' = "done"
    /\ UNCHANGED <<output0, causeVars, confVars, sevVars, patVars, loadVars, runVars>>

NextGuard == Sanitize

SpecGuard == InitGuard /\ [][NextGuard]_vars

----------------------------------------------------------------------------
(* Claims about sanitize_output *)

\* The texts of all string leaves of v: values of dict keys and elements of
\* lists, at any depth.
RECURSIVE AllStrings(_)
AllStrings(v) ==
    IF v.t = "str" THEN {v.s}
    ELSE IF v.t = "dict" THEN UNION {AllStrings(v.items[k]) : k \in DOMAIN v.items}
    ELSE IF v.t = "list" THEN UNION {AllStrings(v.elems[i]) : i \in DOMAIN v.elems}
    ELSE {}

START_METFORMIN == FORBIDDEN_TERMS[5]
METFORMIN == SubSeq(START_METFORMIN, 7, 15)

\* One step of a path into a document: a dict key, or a list index.
KeyStep(k) == [key |-> k, idx |-> 0]
IdxStep(i) == [key |-> "", idx |-> i]

\* The paths, from v, of the string values of dict keys that contain
\* "start metformin" in any letter case.
RECURSIVE StartMetforminPaths(_)
StartMetforminPaths(v) ==
    IF v.t = "dict"
    THEN UNION {
           IF v.items[k].t = "str"
           THEN (IF Contains(START_METFORMIN, Lower(v.items[k].s)) THEN {<<KeyStep(k)>>} ELSE {})
           ELSE {<<KeyStep(k)>> \o p : p \in StartMetforminPaths(v.items[k])}
         : k \in DOMAIN v.items}
    ELSE IF v.t = "list"
    THEN UNION {{<<IdxStep(i)>> \o p : p \in StartMetforminPaths(v.elems[i])} : i \in DOMAIN v.elems}
    ELSE {}

\* The value of v at path p; None where v has no such place.
RECURSIVE At(_, _)
At(v, p) ==
    IF p = <<>> THEN v
    ELSE IF v.t = "dict" /\ p[1].idx = 0 /\ p[1].key \in DOMAIN v.items
    THEN At(v.items[p[1].key], Tail(p))
    ELSE IF v.t = "list" /\ p[1].idx \in DOMAIN v.elems
    THEN At(v.elems[p[1].idx], Tail(p))
    ELSE None

\* Where the value at input path p is to be found in the returned document:
\* a top-level "recommendations" is returned under its new name.
Returned(p) ==
    IF p[1].key = RECOMMENDATIONS THEN <<KeyStep(RECOMMENDATIONS_REMOVED)>> \o Tail(p) ELSE p

\* An input path under a top-level "recommendations_removed_by_guardrails"
\* whose entry the rename of "recommendations" overwrites.
Overwritten(p) ==
    /\ p[1].key = RECOMMENDATIONS_REMOVED
    /\ RECOMMENDATIONS \in DOMAIN output0.items

\* C1 (as claimed): after sanitize_output, no string leaf of the returned
\* document, whether the value of a dict key or an element of a list,
\* contains a forbidden term in any letter case.
C1_NoForbiddenTermInAnyLeaf ==
    pc = "done" => \A s \in AllStrings(cleaned) : ~HasForbiddenTerm(s)

\* C2 (as claimed): "metformin" occurs in no string of the document that
\* sanitize_output returns.
C2_NoMetforminAnywhere ==
    pc = "done" => \A s \in AllStrings(cleaned) : ~Contains(METFORMIN, s)

\* C3 (as claimed): every string value of a dict key, at any depth through
\* dicts and lists, that contains "start metformin" in any letter case is
\* exactly the redaction marker in the returned document.
C3_EveryStartMetforminValueRedacted ==
    pc = "done" =>
        \A p \in StartMetforminPaths(output0) : At(cleaned, Returned(p)) = StrVal(REDACTED)

\* C3 (amended): the same, except for what lies under a top-level
\* "recommendations_removed_by_guardrails" of a document that also has a
\* top-level "recommendations": that entry is overwritten by the renamed
\* recommendations value.
C3_StartMetforminValueRedactedUnlessOverwritten ==
    pc = "done" =>
        \A p \in StartMetforminPaths(output0) :
            ~Overwritten(p) => At(cleaned, Returned(p)) = StrVal(REDACTED)

\* C3 witness: a "start metformin" value written with capitals, reached
\* through a list and a nested dict, has been replaced by the marker.
C3_Witness ==
    /\ pc = "done"
    /\ \E p \in StartMetforminPaths(output0) :
          /\ Len(p) = 3
          /\ p[2].idx = 1
          /\ ~Overwritten(p)
          /\ At(output0, p).s # Lower(At(output0, p).s)
          /\ At(cleaned, Returned(p)) = StrVal(REDACTED)

----------------------------------------------------------------------------
(* knowledge_graph.py: a static table of weighted edges from observation   *)
(* tokens to causes; query returns an observation's edges in table order.  *)

Edge(src, tgt, w) == [source |-> src, relation |-> "possible_cause", target |-> tgt, weight |-> w]

\* kg.query(obs)
query(table, obs) == SelectSeq(table, LAMBDA e : e.source = obs)

----------------------------------------------------------------------------
(* probable_causes.py *)

\* The (observation, edge) pairs in the order the two nested loops visit
\* them: observations in input order, each one's edges in table order.
RECURSIVE Visits(_, _)
Visits(table, obsList) ==
    IF obsList = <<>> THEN <<>>
    ELSE LET es == query(table, Head(obsList))
         IN [i \in DOMAIN es |-> [obs |-> Head(obsList), e |-> es[i]]] \o Visits(table, Tail(obsList))

\* A dict from causes to scores that remembers insertion order, as
\* `combined` does: the keys in the order they were first set, and the scores.
EmptyScores == [order |-> <<>>, score |-> <<>>]
ScoreKeys(c) == {c.order[i] : i \in DOMAIN c.order}
Get(c, k, default) == IF k \in ScoreKeys(c) THEN c.score[k] ELSE default
Put(c, k, x) ==
    [order |-> IF k \in ScoreKeys(c) THEN c.order ELSE Append(c.order, k),
     score |-> [j \in ScoreKeys(c) \cup {k} |-> IF j = k THEN x ELSE c.score[j]]]

\* The weight of one edge after damping: w * 0.8
Damped(w) == (w * 8) \div 10

\* combined[targ] = min(1.0, existing + (w * 0.8))
AddEvidence(existing, w) == Min(ONE, existing + Damped(w))

\* The accumulation loop: `combined` after all visits.
RECURSIVE Accumulate(_, _)
Accumulate(visits, combined) ==
    IF visits = <<>> THEN combined
    ELSE LET targ == Head(visits).e.target
             w == Head(visits).e.weight
         IN Accumulate(Tail(visits), Put(combined, targ, AddEvidence(Get(combined, targ, 0), w)))

\* `support` when only the first observation's edges are recorded.
SupportOfFirstObservation(visits, cause) ==
    LET first == IF visits = <<>> THEN "" ELSE Head(visits).obs
        IsHit(v) == v.e.target = cause /\ v.obs = first
        hits == SelectSeq(visits, IsHit)
    IN [i \in DOMAIN hits |-> <<hits[i].obs, hits[i].e.relation, hits[i].e.target>>]

\* The accumulation loop: `support` after all visits (cause -> traces
\* "<obs>-><relation>-><cause>", here the three parts).
Support(visits, cause) ==
    LET hits == SelectSeq(visits, LAMBDA v : v.e.target = cause)
    IN [i \in DOMAIN hits |-> <<hits[i].obs, hits[i].e.relation, hits[i].e.target>>]

\* combined[c] = min(round(combined[c] * (1.0 + p), 3), 1.0), p = priors.get(c, 0.0)
Fuse(combined, pri) ==
    [order |-> combined.order,
     score |-> [c \in ScoreKeys(combined) |->
                  LET p == IF c \in DOMAIN pri THEN pri[c] ELSE 0
                  IN Min(RoundDiv(combined.score[c] * (ONE + p), ONE), ONE)]]

\* mx = max(combined.values()) if combined else 0.0
MaxScore(combined) ==
    IF combined.order = <<>> THEN 0
    ELSE CHOOSE m \in {combined.score[c] : c \in ScoreKeys(combined)} :
            \A c \in ScoreKeys(combined) : combined.score[c] <= m

\* Mutant of Normalize: the scores divided by their sum instead of their maximum.
NormalizeBySum(combined) ==
    LET RECURSIVE Sum(_)
        Sum(i) == IF i = 0 THEN 0 ELSE combined.score[combined.order[i]] + Sum(i - 1)
        total == Sum(Len(combined.order))
    IN IF total > 0
       THEN [order |-> combined.order,
             score |-> [c \in ScoreKeys(combined) |-> RoundDiv(combined.score[c] * ONE, total)]]
       ELSE combined

\* if mx > 0: combined[k] = round(combined[k] / mx, 3)
Normalize(combined) ==
    LET mx == MaxScore(combined)
    IN IF mx > 0
       THEN [order |-> combined.order,
             score |-> [c \in ScoreKeys(combined) |-> RoundDiv(combined.score[c] * ONE, mx)]]
       ELSE combined

\* Insertion of x into a list kept by score descending, behind every entry
\* that scores at least as much.
RECURSIVE InsertBehindEquals(_, _)
InsertBehindEquals(x, q) ==
    IF q = <<>> THEN <<x>>
    ELSE IF Head(q).score >= x.score THEN <<Head(q)>> \o InsertBehindEquals(x, Tail(q))
    ELSE <<x>> \o q

\* Insertion of x in front of every entry that scores at most as much.
RECURSIVE InsertBeforeEquals(_, _)
InsertBeforeEquals(x, q) ==
    IF q = <<>> THEN <<x>>
    ELSE IF Head(q).score > x.score THEN <<Head(q)>> \o InsertBeforeEquals(x, Tail(q))
    ELSE <<x>> \o q

Items(combined) == [i \in DOMAIN combined.order |->
                      [cause |-> combined.order[i], score |-> combined.score[combined.order[i]]]]

\* Mutant of sorted_causes: sorted(combined.items(), key=...)[::-1], which
\* turns the order of equal scores around.
sorted_causes_reversed(combined) ==
    LET items == Items(combined)
        RECURSIVE Sort(_)
        Sort(i) == IF i = 0 THEN <<>> ELSE InsertBeforeEquals(items[i], Sort(i - 1))
    IN Sort(Len(items))

\* sorted(combined.items(), key=lambda kv: kv[1], reverse=True): a stable
\* sort, so equal scores keep the dict's order.
sorted_causes(combined) ==
    LET items == Items(combined)
        RECURSIVE Sort(_)
        Sort(i) == IF i = 0 THEN <<>> ELSE InsertBehindEquals(items[i], Sort(i - 1))
    IN Sort(Len(items))

\* The score map before normalization: accumulated, then fused with the priors.
FusedScores(table, obsList, pri) == Fuse(Accumulate(Visits(table, obsList), EmptyScores), pri)

\* infer_probable_causes(observations, pattern_details, priors).  The key
\* raw_scores holds `combined`, the dict the normalization rewrote in place.
infer_probable_causes(table, obsList, pri) ==
    LET visits == Visits(table, obsList)
        combined == Normalize(FusedScores(table, obsList, pri))
        sorted == sorted_causes(combined)
    IN [causes |-> [i \in DOMAIN sorted |->
                      [cause |-> sorted[i].cause,
                       score |-> sorted[i].score,
                       support |-> Support(visits, sorted[i].cause),
                       source |-> "kg"]],
        raw_scores |-> combined.score]

\* Inputs: every edge table of at most MaxEdges edges, every observation
\* list of at most MaxObservations tokens, and two prior maps.
MaxEdges == 3
MaxObservations == 2

Observations == {"Hemoglobin_LOW", "MCV_LOW"}
Causes == {"Iron_Deficiency", "Thalassemia"}
Weights == {300, 700}
Edges == {Edge(o, c, w) : o \in Observations, c \in Causes, w \in Weights}

SeqsUpTo(S, n) == UNION {[1..k -> S] : k \in 0..n}

PriorMaps == {<<>>, [c \in {"Thalassemia"} |-> 500]}

InitCauses ==
    /\ pc = "start"
    /\ kg \in SeqsUpTo(Edges, MaxEdges)
    /\ observations \in SeqsUpTo(Observations, MaxObservations)
    /\ priors \in PriorMaps
    /\ probable = None
    /\ GuardIdle /\ ConfIdle /\ SevIdle /\ PatIdle /\ LoadIdle /\ RunIdle

\* probable = infer_probable_causes(observations, patterns, priors=BASE_PRIORS)
InferCauses ==
    /\ pc = "start"
    /\ probable' = infer_probable_causes(kg, observations, priors)
    /\ pc' = "done"
    /\ UNCHANGED <<kg, observations, priors, guardVars, confVars, sevVars, patVars, loadVars, runVars>>

NextCauses == InferCauses

SpecCauses == InitCauses /\ [][NextCauses]_vars

----------------------------------------------------------------------------
(* Claims about infer_probable_causes *)

Range(q) == {q[i] : i \in DOMAIN q}

\* Some input observation has an outgoing edge.
SomeEdge == \E i \in DOMAIN observations : query(kg, observations[i]) # <<>>

CauseScores == {probable.causes[i].score : i \in DOMAIN probable.causes}

\* C4: when some input observation has an outgoing edge the largest score
\* among the returned causes is exactly 1.0, and when none has, the list of
\* causes is empty.
C4_TopScoreIsOne ==
    pc = "done" /\ probable # None =>
        IF SomeEdge
        THEN probable.causes # <<>> /\ ONE \in CauseScores /\ \A s \in CauseScores : s <= ONE
        ELSE probable.causes = <<>>

\* C4 witness: two causes were inferred, the best fused score was below 1.0
\* before normalization, and the other cause ended at a rounded quotient.
C4_Witness ==
    /\ pc = "done" /\ probable # None
    /\ Len(probable.causes) = 2
    /\ MaxScore(FusedScores(kg, observations, priors)) < ONE
    /\ probable.causes[1].score = ONE
    /\ probable.causes[2].score = 429

\* C5 (as claimed): when two different observations each have an edge, with
\* different weights, to the same cause, the raw score reported for that
\* cause on the two observations together is strictly greater than the raw
\* score reported for it on either observation alone.
C5_RawScoreExceedsEitherAlone ==
    pc = "done" /\ probable # None /\ Len(observations) = 2 /\ observations[1] # observations[2] =>
        \A c \in Causes :
            (\E e1 \in Range(query(kg, observations[1])), e2 \in Range(query(kg, observations[2])) :
                e1.target = c /\ e2.target = c /\ e1.weight # e2.weight)
            => /\ probable.raw_scores[c] >
                    infer_probable_causes(kg, <<observations[1]>>, priors).raw_scores[c]
               /\ probable.raw_scores[c] >
                    infer_probable_causes(kg, <<observations[2]>>, priors).raw_scores[c]

\* The position, among the visits of the accumulation, at which cause c was
\* first reached.
FirstReached(c) ==
    LET visits == Visits(kg, observations)
    IN CHOOSE i \in DOMAIN visits :
          /\ visits[i].e.target = c
          /\ \A j \in 1..(i - 1) : visits[j].e.target # c

\* C6: the returned causes are in non-increasing order of score, and causes
\* of equal score are in the order in which the accumulation first reached them.
C6_SortedByScoreThenFirstReached ==
    pc = "done" /\ probable # None =>
        \A i, j \in DOMAIN probable.causes :
            i < j =>
                \/ probable.causes[i].score > probable.causes[j].score
                \/ /\ probable.causes[i].score = probable.causes[j].score
                   /\ FirstReached(probable.causes[i].cause) < FirstReached(probable.causes[j].cause)

\* C6 witness: two causes tie, and the one returned first is the one the
\* second observation's edge reached before the other cause was reached.
C6_Witness ==
    /\ pc = "done" /\ probable # None
    /\ Len(probable.causes) = 2
    /\ probable.causes[1].score = probable.causes[2].score
    /\ probable.causes[1].cause = "Thalassemia"
    /\ Len(observations) = 2
    /\ query(kg, observations[1]) = <<>>

----------------------------------------------------------------------------
(* confidence.py *)

IGNORED == {"age", "gender", "patient_id", "filename", "report_date"}

\* The presence score when a key counts as present whatever its value.
_parameter_presence_score_of_keys(ps) ==
    LET counted == DOMAIN ps \ IGNORED
        total == Cardinality(counted)
    IN IF total = 0 THEN 0 ELSE RoundDiv(Min(ONE * total, ONE * total), total)

\* _parameter_presence_score(params)
_parameter_presence_score(ps) ==
    LET counted == DOMAIN ps \ IGNORED
        total == Cardinality(counted)
        present == Cardinality({k \in counted : ps[k] # NoValue})
    IN IF total = 0 THEN 0 ELSE RoundDiv(Min(ONE * total, ONE * present), total)

SEVERE == <<"s","e","v","e","r","e">>

\* _pattern_strength(patterns): p is patterns.get("patterns", {})
_pattern_strength(p) ==
    LET there == {n \in DOMAIN p : p[n].present}
        severe == {n \in there : p[n].severity # <<>> /\ Contains(SEVERE, p[n].severity)}
        count == Cardinality(there)
        weight == ONE * Cardinality(severe) + (ONE \div 2) * Cardinality(there \ severe)
    IN IF count = 0 THEN 0 ELSE RoundDiv(Min(ONE * count, weight), count)

\* _kg_top_score(probable_causes): causes is probable_causes.get("causes", [])
_kg_top_score(causes) ==
    IF causes = <<>> THEN 0 ELSE causes[1].score

HIGH_CONFIDENCE == "High confidence due to complete and consistent laboratory evidence."
MODERATE_PREFIX == "Moderate confidence because "
CAVEAT_MISSING ==
    "several relevant laboratory parameters are missing, limiting diagnostic certainty"
CAVEAT_PATTERN == "some detected patterns overlap or lack confirmatory markers"
MISSING_INCLUDE == "missing parameters include: "
ELLIPSIS == "..."

LISTED == 6

\* sep.join(parts), as the sequence of the parts and the separators between them
RECURSIVE Join(_, _)
Join(sep, parts) ==
    IF parts = <<>> THEN <<>>
    ELSE IF Len(parts) = 1 THEN parts[1]
    ELSE parts[1] \o <<sep>> \o Join(sep, Tail(parts))

\* The reason that lists the missing parameters.
MissingList(missing) ==
    <<MISSING_INCLUDE>>
    \o Join(", ", [i \in 1..Min(LISTED, Len(missing)) |-> <<missing[i]>>])
    \o (IF Len(missing) > LISTED THEN <<ELLIPSIS>> ELSE <<>>)

\* Mutant of build_confidence_explanation: the missing names are listed
\* only as part of the presence caveat.
build_confidence_explanation_merged(presence, pattern, missing) ==
    LET reasons ==
            (IF presence < 500 THEN <<<<CAVEAT_MISSING>>>> ELSE <<>>)
         \o (IF pattern < 700 THEN <<<<CAVEAT_PATTERN>>>> ELSE <<>>)
         \o (IF presence < 500 /\ missing # <<>> THEN <<MissingList(missing)>> ELSE <<>>)
    IN IF reasons = <<>> THEN <<HIGH_CONFIDENCE>>
       ELSE <<MODERATE_PREFIX>> \o Join("; ", reasons) \o <<".">>

\* build_confidence_explanation(presence, pattern, missing_params): the text
\* as the sequence of its parts.
build_confidence_explanation(presence, pattern, missing) ==
    LET reasons ==
            (IF presence < 500 THEN <<<<CAVEAT_MISSING>>>> ELSE <<>>)
         \o (IF pattern < 700 THEN <<<<CAVEAT_PATTERN>>>> ELSE <<>>)
         \o (IF missing # <<>> THEN <<MissingList(missing)>> ELSE <<>>)
    IN IF reasons = <<>> THEN <<HIGH_CONFIDENCE>>
       ELSE <<MODERATE_PREFIX>> \o Join("; ", reasons) \o <<".">>

\* compute_confidence(params, patterns, probable_causes, missing_params)
compute_confidence(ps, p, causes, missing) ==
    LET presence_score == _parameter_presence_score(ps)
        pattern_score == _pattern_strength(p)
        kg_score == _kg_top_score(causes)
    IN [score |-> RoundDiv(4 * presence_score + 4 * pattern_score + 2 * kg_score, 10),
        components |-> [presence |-> presence_score, pattern |-> pattern_score, kg |-> kg_score],
        explanation |-> build_confidence_explanation(presence_score, pattern_score, missing)]

\* Inputs: every parameter map over ParamKeys, every pattern map over
\* PatternNames, no cause or one top cause, and the first 0..MaxMissing
\* names of MissingNames.
MaxMissing == 7

ParamKeys == {"Hemoglobin", "MCV", "age"}
PatternNames == {"anemia", "thrombocytopenia"}
SeverityTexts ==
    { <<>>,
      <<"l","o","w">>,
      <<"s","e","v","e","r","e","_","l","o","w">> }
PatternInfos ==
    {[present |-> FALSE, severity |-> <<>>]}
    \cup {[present |-> TRUE, severity |-> s] : s \in SeverityTexts}
TopScores == {0, 429, 1000, 7000}
MissingNames ==
    <<"Hemoglobin", "MCV", "Platelets", "RDW", "LDL", "HDL", "CRP", "WBC", "Creatinine", "HbA1c">>

MapsOver(K, V) == UNION {[D -> V] : D \in SUBSET K}

InitConfidence ==
    /\ pc = "start"
    /\ params \in MapsOver(ParamKeys, {NoValue, Num(1)})
    /\ patterns \in MapsOver(PatternNames, PatternInfos)
    /\ probable_causes \in {<<>>} \cup {<<[cause |-> "Iron_Deficiency", score |-> s]>> : s \in TopScores}
    /\ missing_params \in {SubSeq(MissingNames, 1, k) : k \in 0..MaxMissing}
    /\ confidence = None
    /\ GuardIdle /\ CauseIdle /\ SevIdle /\ PatIdle /\ LoadIdle /\ RunIdle

\* confidence = compute_confidence(flat_params, patterns, probable, missing_params)
ComputeConfidence ==
    /\ pc = "start"
    /\ confidence' = compute_confidence(params, patterns, probable_causes, missing_params)
    /\ pc' = "done"
    /\ UNCHANGED <<params, patterns, probable_causes, missing_params, guardVars, causeVars, sevVars, patVars, loadVars, runVars>>

NextConfidence == ComputeConfidence

SpecConfidence == InitConfidence /\ [][NextConfidence]_vars

----------------------------------------------------------------------------
(* Claims about compute_confidence *)

Parts(text) == {text[i] : i \in DOMAIN text}

\* C8 (as claimed): the explanation is the canned high-confidence sentence
\* exactly when presence >= 0.5 and pattern_strength >= 0.7; otherwise it
\* starts with "Moderate confidence because" and speaks of missing
\* parameters only when presence < 0.5 and of weak patterns only when
\* pattern_strength < 0.7.
C8_HighExactlyWhenBothThresholdsMet ==
    pc = "done" /\ confidence # None =>
        LET presence == confidence.components.presence
            pattern == confidence.components.pattern
            text == confidence.explanation
        IN /\ (text = <<HIGH_CONFIDENCE>>) <=> (presence >= 500 /\ pattern >= 700)
           /\ text # <<HIGH_CONFIDENCE>> =>
                /\ Head(text) = MODERATE_PREFIX
                /\ (CAVEAT_MISSING \in Parts(text) \/ MISSING_INCLUDE \in Parts(text)) => presence < 500
                /\ CAVEAT_PATTERN \in Parts(text) => pattern < 700

\* C8 (amended): the explanation is the canned high-confidence sentence
\* exactly when presence >= 0.5, pattern_strength >= 0.7 and missing_params
\* is empty; otherwise it starts with "Moderate confidence because" and
\* holds the missing-parameters caveat exactly when presence < 0.5, the
\* weak-pattern caveat exactly when pattern_strength < 0.7, and the list of
\* missing names exactly when missing_params is not empty.
C8_HighExactlyWhenNoReason ==
    pc = "done" /\ confidence # None =>
        LET presence == confidence.components.presence
            pattern == confidence.components.pattern
            text == confidence.explanation
        IN /\ (text = <<HIGH_CONFIDENCE>>) <=>
                (presence >= 500 /\ pattern >= 700 /\ missing_params = <<>>)
           /\ text # <<HIGH_CONFIDENCE>> =>
                /\ Head(text) = MODERATE_PREFIX
                /\ CAVEAT_MISSING \in Parts(text) <=> presence < 500
                /\ CAVEAT_PATTERN \in Parts(text) <=> pattern < 700
                /\ MISSING_INCLUDE \in Parts(text) <=> missing_params # <<>>

\* C8 witness: both thresholds are met and seven parameters are missing;
\* the explanation is the moderate one, listing six names and "...".
C8_Witness ==
    /\ pc = "done" /\ confidence # None
    /\ confidence.components.presence >= 500
    /\ confidence.components.pattern >= 700
    /\ Len(missing_params) = 7
    /\ confidence.explanation =
         <<MODERATE_PREFIX, MISSING_INCLUDE,
           "Hemoglobin", ", ", "MCV", ", ", "Platelets", ", ", "RDW", ", ", "LDL", ", ", "HDL",
           ELLIPSIS, ".">>

----------------------------------------------------------------------------
(* severity.py.  Values and range bounds are whole numbers; a comparison   *)
(* with a decimal factor is made on both sides multiplied out, so          *)
(* v < 0.7*low is 10*v < 7*low.                                            *)

\* Mutant of LabelBelow: the 0.5 test made first and then overwritten by
\* the 0.7 test.
LabelBelowOverwritten(v, low) ==
    IF 10 * v < 7 * low THEN "severe_low"
    ELSE IF 2 * v < low THEN "very_severe_low"
    ELSE "low"

\* severity = "severe_low" if v < 0.7*low else "low"; if v < 0.5*low: "very_severe_low"
LabelBelow(v, low) ==
    LET severity == IF 10 * v < 7 * low THEN "severe_low" ELSE "low"
    IN IF 2 * v < low THEN "very_severe_low" ELSE severity

\* severity = "severe_high" if v > 1.5*high else "high"; if v > 2.0*high: "very_severe_high"
LabelAbove(v, high) ==
    LET severity == IF 2 * v > 3 * high THEN "severe_high" ELSE "high"
    IN IF v > 2 * high THEN "very_severe_high" ELSE severity

\* Mutant of LabelInside: the border tests made with < instead of <=.
LabelInsideStrict(v, low, high) ==
    LET span == IF high # low THEN high - low ELSE IF high # 0 THEN high ELSE 1
    IN IF 20 * (v - low) < span THEN "borderline_low"
       ELSE IF 20 * (high - v) < span THEN "borderline_high"
       ELSE "normal"

\* span = high - low if high != low else high or 1; border = 0.05 * span
LabelInside(v, low, high) ==
    LET span == IF high # low THEN high - low ELSE IF high # 0 THEN high ELSE 1
    IN IF 20 * (v - low) <= span THEN "borderline_low"
       ELSE IF 20 * (high - v) <= span THEN "borderline_high"
       ELSE "normal"

Note(v, low, high) == <<v, low, high>>

\* label_from_range looking for the reference range before it looks at the
\* value.
label_from_range_range_first(range, val) ==
    IF range = None
    THEN [value |-> val, label |-> "unknown_range", note |-> <<"No reference range">>, distance |-> NoValue]
    ELSE IF val = NoValue
    THEN [value |-> NoValue, label |-> "missing", note |-> <<"No value">>, distance |-> NoValue]
    ELSE IF val.kind # "num"
    THEN [value |-> val, label |-> "unparseable", note |-> <<"str(value)">>, distance |-> NoValue]
    ELSE [value |-> val, label |-> "normal", note |-> Note(val.n, range.low, range.high),
          distance |-> Num(0)]

\* label_from_range(param, value, age, gender), with range the result of
\* get_reference_range(param, age=age, gender=gender): None, or the bounds
\* (low, high) of the parameter's reference range.
label_from_range(range, val) ==
    IF val = NoValue
    THEN [value |-> NoValue, label |-> "missing", note |-> <<"No value">>, distance |-> NoValue]
    ELSE IF range = None
    THEN [value |-> val, label |-> "unknown_range", note |-> <<"No reference range">>, distance |-> NoValue]
    ELSE IF val.kind # "num"
    THEN [value |-> val, label |-> "unparseable", note |-> <<"str(value)">>, distance |-> NoValue]
    ELSE LET v == val.n
             low == range.low
             high == range.high
         IN IF v < low
            THEN [value |-> val, label |-> LabelBelow(v, low),
                  note |-> Note(v, low, high), distance |-> Num(v - low)]
            ELSE IF v > high
            THEN [value |-> val, label |-> LabelAbove(v, high),
                  note |-> Note(v, low, high), distance |-> Num(v - high)]
            ELSE [value |-> val, label |-> LabelInside(v, low, high),
                  note |-> Note(v, low, high), distance |-> Num(0)]

\* Inputs: no range or one of the sample reference ranges; no value, text
\* that is no number, or a whole number from -MaxBelowZero to MaxValue.
MaxValue == 100
MaxBelowZero == 2

ReferenceRanges ==
    { [low |-> 0,  high |-> 0],
      [low |-> 0,  high |-> 40],
      [low |-> 12, high |-> 16],
      [low |-> 20, high |-> 20],
      [low |-> 20, high |-> 45] }

InitSeverity ==
    /\ pc = "start"
    /\ ref \in ReferenceRanges \cup {None}
    /\ value \in {NoValue, NotANumber} \cup {Num(n) : n \in (0 - MaxBelowZero)..MaxValue}
    /\ label = None
    /\ GuardIdle /\ CauseIdle /\ ConfIdle /\ PatIdle /\ LoadIdle /\ RunIdle

\* severity_map[param] = label_from_range(param, val, age=..., gender=...)
LabelFromRange ==
    /\ pc = "start"
    /\ label' = label_from_range(ref, value)
    /\ pc' = "done"
    /\ UNCHANGED <<ref, value, guardVars, causeVars, confVars, patVars, loadVars, runVars>>

NextSeverity == LabelFromRange

SpecSeverity == InitSeverity /\ [][NextSeverity]_vars

----------------------------------------------------------------------------
(* Claims about label_from_range *)

Classified == pc = "done" /\ label # None /\ ref # None /\ value.kind = "num"

\* C9: a value below half the low bound is labelled very_severe_low, and a
\* value above twice the high bound is labelled very_severe_high.
C9_VerySevereBeyondHalfAndDouble ==
    Classified =>
        /\ 2 * value.n < ref.low => label.label = "very_severe_low"
        /\ value.n > 2 * ref.high => label.label = "very_severe_high"

\* C9 witness: a value below half a positive low bound (so also below 0.7
\* of it) has been labelled very_severe_low.
C9_Witness ==
    /\ Classified
    /\ ref.low > 0
    /\ 2 * value.n < ref.low
    /\ label.label = "very_severe_low"

\* C10: a value inside [low, high] is labelled borderline_low or
\* borderline_high when it lies within 0.05*(high-low) of low or of high and
\* normal otherwise, never with a low or high label, and its distance is 0.
C10_InsideIsBorderlineOrNormal ==
    Classified /\ ref.low <= value.n /\ value.n <= ref.high =>
        LET nearEdge == \/ 20 * (value.n - ref.low) <= ref.high - ref.low
                        \/ 20 * (ref.high - value.n) <= ref.high - ref.low
        IN /\ nearEdge => label.label \in {"borderline_low", "borderline_high"}
           /\ ~nearEdge => label.label = "normal"
           /\ label.distance = Num(0)

\* C10 witness: a value exactly 5% of the span below the high bound, not at
\* the bound itself, has been labelled borderline_high.
C10_Witness ==
    /\ Classified
    /\ value.n < ref.high
    /\ 20 * (ref.high - value.n) = ref.high - ref.low
    /\ label.label = "borderline_high"
    /\ label.distance = Num(0)

\* C11: label_from_range always returns a record with the four fields
\* value, label, note and distance.  A value that is absent is labelled
\* missing; a value that is there for a parameter without a reference range
\* is labelled unknown_range; a value that is there, with a range, and is no
\* number is labelled unparseable; in those three cases distance is null.
C11_AlwaysFourFieldsAndTheThreeFallbacks ==
    pc = "done" /\ label # None =>
        /\ DOMAIN label = {"value", "label", "note", "distance"}
        /\ value = NoValue => label.label = "missing"
        /\ value # NoValue /\ ref = None => label.label = "unknown_range"
        /\ value = NotANumber /\ ref # None => label.label = "unparseable"
        /\ label.label \in {"missing", "unknown_range", "unparseable"} =>
               label.distance = NoValue

\* C11 witness: an absent value of a parameter without a reference range has
\* been labelled missing, with no distance.
C11_Witness ==
    /\ pc = "done"
    /\ value = NoValue /\ ref = None
    /\ label.label = "missing"
    /\ label.distance = NoValue

----------------------------------------------------------------------------
(* priors.py: the reference ranges.  The file is not in src/; the table    *)
(* and its lookup follow the specification: a range per parameter, either  *)
(* given directly or keyed by adult_male, adult_female and adult, looked   *)
(* up in the order direct, adult_male, adult_female, adult.                *)
(*                                                                         *)
(* From here on a laboratory value is a whole number of tenths of its      *)
(* unit (Hemoglobin 6.5 is 65), and so are the bounds of a range.          *)

Bounds(low, high) == [low |-> low, high |-> high]

REFERENCE_RANGES ==
    [ Hemoglobin        |-> [adult_male |-> Bounds(130, 170), adult_female |-> Bounds(120, 155)],
      MCV               |-> [direct |-> Bounds(800, 1000)],
      RDW               |-> [direct |-> Bounds(115, 145)],
      Platelets         |-> [direct |-> Bounds(1500, 4500)],
      WBC               |-> [direct |-> Bounds(40, 110)],
      Neutrophils       |-> [direct |-> Bounds(400, 750)],
      Lymphocytes       |-> [direct |-> Bounds(200, 450)],
      Total_Cholesterol |-> [direct |-> Bounds(1250, 2000)],
      LDL               |-> [direct |-> Bounds(500, 1000)],
      Triglycerides     |-> [direct |-> Bounds(500, 1500)],
      HDL               |-> [direct |-> Bounds(400, 600)],
      Glucose_Fasting   |-> [direct |-> Bounds(700, 1000)],
      HbA1c             |-> [direct |-> Bounds(40, 56)] ]

\* A value that is text.
Text(s) == [kind |-> "str", s |-> s]

FEMALE == <<"f","e","m","a","l","e">>
MALE == <<"m","a","l","e">>

\* get_reference_range(param, age=age, gender=gender)
get_reference_range(param, age, gender) ==
    IF param \notin DOMAIN REFERENCE_RANGES THEN None
    ELSE LET entry == REFERENCE_RANGES[param]
             own == IF gender.kind # "str" THEN "adult"
                    ELSE IF Lower(gender.s) = FEMALE THEN "adult_female"
                    ELSE IF Lower(gender.s) = MALE THEN "adult_male"
                    ELSE "adult"
         IN IF "direct" \in DOMAIN entry THEN entry.direct
            ELSE IF own \in DOMAIN entry THEN entry[own]
            ELSE IF "adult_male" \in DOMAIN entry THEN entry.adult_male
            ELSE IF "adult_female" \in DOMAIN entry THEN entry.adult_female
            ELSE IF "adult" \in DOMAIN entry THEN entry.adult
            ELSE None

----------------------------------------------------------------------------
(* pattern_engine.py *)

\* The characters of a severity label.
Spelling(l) ==
    CASE l = "very_severe_low" -> <<"v","e","r","y","_","s","e","v","e","r","e","_","l","o","w">>
      [] l = "severe_low" -> <<"s","e","v","e","r","e","_","l","o","w">>
      [] l = "low" -> <<"l","o","w">>
      [] l = "borderline_low" -> <<"b","o","r","d","e","r","l","i","n","e","_","l","o","w">>
      [] l = "normal" -> <<"n","o","r","m","a","l">>
      [] l = "borderline_high" -> <<"b","o","r","d","e","r","l","i","n","e","_","h","i","g","h">>
      [] l = "high" -> <<"h","i","g","h">>
      [] l = "severe_high" -> <<"s","e","v","e","r","e","_","h","i","g","h">>
      [] l = "very_severe_high" -> <<"v","e","r","y","_","s","e","v","e","r","e","_","h","i","g","h">>
      [] l = "missing" -> <<"m","i","s","s","i","n","g">>
      [] l = "unknown_range" -> <<"u","n","k","n","o","w","n","_","r","a","n","g","e">>
      [] l = "unparseable" -> <<"u","n","p","a","r","s","e","a","b","l","e">>

\* str.startswith
StartsWith(s, prefix) ==
    Len(prefix) <= Len(s) /\ SubSeq(s, 1, Len(prefix)) = prefix

LOW == <<"l","o","w">>
HIGH == <<"h","i","g","h">>
VERY_SEVERE == <<"v","e","r","y","_","s","e","v","e","r","e">>

\* params.get(k)
Param(ps, k) == IF k \in DOMAIN ps THEN ps[k] ELSE NoValue

\* Python None as the value of a field that otherwise holds a name.
NoName == "None"

\* float(hba1c) >= 5.7 and float(glucose) >= 100, in tenths
HBA1C_SIGNAL == 57
GLUCOSE_SIGNAL == 1000

\* The type of an anemia with the MCV label m.
AnemiaType(m) ==
    IF StartsWith(Spelling(m.label), LOW) THEN "microcytic"
    ELSE IF StartsWith(Spelling(m.label), HIGH) THEN "macrocytic"
    ELSE "normocytic"

\* detect_patterns(params)
detect_patterns(ps) ==
    LET age == Param(ps, "age")
        gender == Param(ps, "gender")
        Of(param) == label_from_range(get_reference_range(param, age, gender), Param(ps, param))
        Plain(param) == label_from_range(get_reference_range(param, NoValue, NoValue), Param(ps, param))
        Starts(l, prefix) == StartsWith(Spelling(l.label), prefix)
        hb == Of("Hemoglobin")
        mcv == Of("MCV")
        rdw == Of("RDW")
        plate == Of("Platelets")
        neut == Of("Neutrophils")
        lymph == Of("Lymphocytes")
        anemia_present ==
            \/ Starts(hb, LOW)
            \/ Starts(hb, VERY_SEVERE)
            \/ hb.label \in {"severe_low", "very_severe_low"}
        anemia_type == IF anemia_present THEN AnemiaType(mcv) ELSE NoName
        support ==
            IF ~anemia_present THEN <<>>
            ELSE <<"Hemoglobin_LOW">>
                 \o (IF anemia_type = "microcytic" THEN <<"MCV_LOW">>
                     ELSE IF anemia_type = "macrocytic" THEN <<"MCV_HIGH">>
                     ELSE <<>>)
                 \o (IF Starts(rdw, HIGH) THEN <<"RDW_HIGH">> ELSE <<>>)
        thromb_present ==
            Starts(plate, LOW) \/ plate.label \in {"severe_low", "very_severe_low"}
        wbc == Of("WBC")
        is_isolated == thromb_present /\ ~(Starts(wbc, LOW) \/ anemia_present)
        tc_label == Plain("Total_Cholesterol")
        ldl_label == Plain("LDL")
        tg_label == Plain("Triglycerides")
        dyslipid == Starts(tc_label, HIGH) \/ Starts(ldl_label, HIGH) \/ Starts(tg_label, HIGH)
        dys_support ==
            (IF Starts(tc_label, HIGH) THEN <<"Total_Cholesterol_HIGH">> ELSE <<>>)
            \o (IF Starts(ldl_label, HIGH) THEN <<"LDL_HIGH">> ELSE <<>>)
            \o (IF Starts(tg_label, HIGH) THEN <<"Triglycerides_HIGH">> ELSE <<>>)
        glucose == Param(ps, "Glucose_Fasting")
        hba1c == Param(ps, "HbA1c")
        lipid_sign == Starts(tg_label, HIGH) \/ Starts(Plain("HDL"), LOW)
        Truthy(x) == x.kind = "num" /\ x.n # 0
        sugar_sign ==
            \/ Truthy(hba1c) /\ hba1c.n >= HBA1C_SIGNAL
            \/ Truthy(glucose) /\ glucose.n >= GLUCOSE_SIGNAL
        metab_support ==
            (IF lipid_sign THEN <<"TG_HIGH_or_HDL_LOW">> ELSE <<>>)
            \o (IF sugar_sign THEN <<"Glucose_pre-diabetes_or_hyperglycemia">> ELSE <<>>)
    IN [patterns |->
         [anemia |->
            [present |-> anemia_present, type |-> anemia_type, support |-> support,
             severity |-> hb.label, note |-> hb.note],
          thrombocytopenia |->
            [present |-> thromb_present, isolated |-> is_isolated, severity |-> plate.label,
             support |-> IF thromb_present THEN <<"Platelets_LOW">> ELSE <<>>],
          neutrophilia |->
            [present |-> Starts(neut, HIGH), severity |-> neut.label,
             support |-> IF Starts(neut, HIGH) THEN <<"Neutrophils_HIGH">> ELSE <<>>],
          lymphocytosis |->
            [present |-> Starts(lymph, HIGH), severity |-> lymph.label,
             support |-> IF Starts(lymph, HIGH) THEN <<"Lymphocytes_HIGH">> ELSE <<>>],
          dyslipidemia |->
            [present |-> dyslipid, support |-> dys_support,
             details |-> [tc |-> tc_label, ldl |-> ldl_label, tg |-> tg_label]],
          metabolic_syndrome_signals |->
            [present |-> lipid_sign \/ sugar_sign, support |-> metab_support]]]

\* Inputs.  Each parameter takes a value from a few samples that between
\* them fall in every class of its range the rules tell apart; either the
\* blood-count parameters vary and the lipid and sugar ones are normal, or
\* the other way round.  Scenario A of the specification (Hemoglobin 6.5,
\* MCV 109.6, Platelets 180, gender female) is among them.
HemoglobinSamples == {NoValue, Num(50), Num(65), Num(110), Num(135), Num(400)}
MCVSamples == {NoValue, Num(500), Num(700), Num(900), Num(1096), Num(1600)}
RDWSamples == {NoValue, Num(130), Num(160)}
PlateletsSamples == {NoValue, Num(500), Num(1200), Num(1800)}
WBCSamples == {NoValue, Num(20), Num(35), Num(70)}
NeutrophilsSamples == {Num(550), Num(800), Num(1200)}
LymphocytesSamples == {Num(300), Num(500)}
GenderSamples == {NoValue, Text(<<"F","e","m","a","l","e">>), Text(MALE)}
CholesterolSamples == {Num(1800), Num(2400)}
LDLSamples == {Num(900), Num(1300)}
TriglyceridesSamples == {Num(1000), Num(2000), Num(3200)}
HDLSamples == {Num(500), Num(350), Num(250)}
GlucoseSamples == {NoValue, Num(900), Num(1100)}
HbA1cSamples == {NoValue, Num(50), Num(60)}

\* The flat parameter map of the runner: the parameters, and the gender
\* under the key "gender" when the record has one.
FlatParams(hb, mcv, rdw, plate, wbc, neut, lymph, tc, ldl, tg, hdl, glu, a1c, gender) ==
    LET parameters ==
            [Hemoglobin |-> hb, MCV |-> mcv, RDW |-> rdw, Platelets |-> plate, WBC |-> wbc,
             Neutrophils |-> neut, Lymphocytes |-> lymph, Total_Cholesterol |-> tc,
             LDL |-> ldl, Triglycerides |-> tg, HDL |-> hdl, Glucose_Fasting |-> glu,
             HbA1c |-> a1c]
    IN IF gender = NoValue THEN parameters
       ELSE [k \in DOMAIN parameters \cup {"gender"} |->
                IF k = "gender" THEN gender ELSE parameters[k]]

InitPatterns ==
    /\ pc = "start"
    /\ \/ \E hb \in HemoglobinSamples, mcv \in MCVSamples, rdw \in RDWSamples,
            plate \in PlateletsSamples, wbc \in WBCSamples, neut \in NeutrophilsSamples,
            lymph \in LymphocytesSamples, gender \in GenderSamples :
            flat_params = FlatParams(hb, mcv, rdw, plate, wbc, neut, lymph,
                                     Num(1800), Num(900), Num(1000), Num(500),
                                     Num(900), Num(50), gender)
       \/ \E tc \in CholesterolSamples, ldl \in LDLSamples, tg \in TriglyceridesSamples,
            hdl \in HDLSamples, glu \in GlucoseSamples, a1c \in HbA1cSamples :
            flat_params = FlatParams(Num(135), Num(900), Num(130), Num(1800), Num(70),
                                     Num(550), Num(300), tc, ldl, tg, hdl, glu, a1c, NoValue)
    /\ detected = None
    /\ GuardIdle /\ CauseIdle /\ ConfIdle /\ SevIdle /\ LoadIdle /\ RunIdle

\* patterns = detect_patterns(flat_params)
DetectPatterns ==
    /\ pc = "start"
    /\ detected' = detect_patterns(flat_params)
    /\ pc' = "done"
    /\ UNCHANGED <<flat_params, guardVars, causeVars, confVars, sevVars, loadVars, runVars>>

NextPatterns == DetectPatterns

SpecPatterns == InitPatterns /\ [][NextPatterns]_vars

----------------------------------------------------------------------------
(* Claims about detect_patterns *)

\* The reference range detect_patterns uses for a blood-count parameter.
RangeInUse(param) ==
    get_reference_range(param, Param(flat_params, "age"), Param(flat_params, "gender"))

BelowRange(param) ==
    /\ Param(flat_params, param).kind = "num"
    /\ Param(flat_params, param).n < RangeInUse(param).low
AboveRange(param) ==
    /\ Param(flat_params, param).kind = "num"
    /\ Param(flat_params, param).n > RangeInUse(param).high
InsideRange(param) ==
    /\ Param(flat_params, param).kind = "num"
    /\ ~BelowRange(param) /\ ~AboveRange(param)

\* C12 (as claimed): whenever Hemoglobin is below its reference range, MCV
\* above its reference range and Platelets inside its reference range,
\* detect_patterns reports anemia present, of type macrocytic, and
\* thrombocytopenia not present.
C12_LowHemoglobinHighMCVIsMacrocyticAnemia ==
    pc = "done" /\ detected # None
    /\ BelowRange("Hemoglobin") /\ AboveRange("MCV") /\ InsideRange("Platelets") =>
        /\ detected.patterns.anemia.present
        /\ detected.patterns.anemia.type = "macrocytic"
        /\ ~detected.patterns.thrombocytopenia.present

\* Scenario A itself (Hemoglobin 6.5, MCV 109.6, Platelets 180, female) has
\* been run and gives the three claimed results.
C12_ScenarioA ==
    /\ pc = "done" /\ detected # None
    /\ flat_params.Hemoglobin = Num(65) /\ flat_params.MCV = Num(1096)
    /\ flat_params.Platelets = Num(1800)
    /\ Param(flat_params, "gender") = Text(<<"F","e","m","a","l","e">>)
    /\ detected.patterns.anemia.present
    /\ detected.patterns.anemia.type = "macrocytic"
    /\ ~detected.patterns.thrombocytopenia.present

----------------------------------------------------------------------------
(* Claims about the support of patterns and causes *)

\* Either call on its own: detect_patterns on a parameter map, or
\* infer_probable_causes on an observation list.
InitSupport == InitPatterns \/ InitCauses
NextSupport ==
    \/ ~PatIdle /\ DetectPatterns
    \/ PatIdle /\ InferCauses
SpecSupport == InitSupport /\ [][NextSupport]_vars

\* C14: every pattern detect_patterns reports as present has a non-empty
\* support list, and every cause infer_probable_causes returns with a score
\* above 0 has a non-empty support list.
C14_PresentOrScoredHasSupport ==
    pc = "done" =>
        /\ detected # None =>
              \A n \in DOMAIN detected.patterns :
                  detected.patterns[n].present => detected.patterns[n].support # <<>>
        /\ probable # None =>
              \A i \in DOMAIN probable.causes :
                  probable.causes[i].score > 0 => probable.causes[i].support # <<>>

\* C14 witness: detect_patterns has reported a present pattern, with
\* support.
C14_Witness ==
    /\ pc = "done" /\ detected # None
    /\ \E n \in DOMAIN detected.patterns :
          detected.patterns[n].present /\ detected.patterns[n].support # <<>>

----------------------------------------------------------------------------
(* More text: the string operations of loader.py, character by character *)

Digits == <<"0","1","2","3","4","5","6","7","8","9">>

IsDigit(c) == \E i \in DOMAIN Digits : Digits[i] = c
IsUpper(c) == \E i \in DOMAIN UpperCase : UpperCase[i] = c
IsLower(c) == \E i \in DOMAIN LowerCase : LowerCase[i] = c
IsLetter(c) == IsUpper(c) \/ IsLower(c)
IsAlnum(c) == IsDigit(c) \/ IsLetter(c)
IsSpace(c) == c \in {" ", "\t", "\n"}

UpperChar(c) ==
    IF IsLower(c) THEN UpperCase[CHOOSE i \in DOMAIN LowerCase : LowerCase[i] = c] ELSE c

\* str.upper()
Upper(s) == [i \in DOMAIN s |-> UpperChar(s[i])]

\* str.capitalize()
Capitalize(s) ==
    [i \in DOMAIN s |-> IF i = 1 THEN UpperChar(s[i]) ELSE LowerChar(s[i])]

\* The value of a digit, and of a string of digits.
DigitValue(c) == (CHOOSE i \in DOMAIN Digits : Digits[i] = c) - 1

RECURSIVE DigitsValue(_)
DigitsValue(s) ==
    IF s = <<>> THEN 0 ELSE 10 * DigitsValue(SubSeq(s, 1, Len(s) - 1)) + DigitValue(s[Len(s)])

\* The text without the characters that satisfy Drop, as re.sub(class+, "")
\* and str.replace(c, "") leave it.
Without(s, Drop(_)) == SelectSeq(s, LAMBDA c : ~Drop(c))

\* s.strip(chars): without the leading and trailing characters that satisfy Strippable
LStrip(s, Strippable(_)) ==
    IF \A i \in DOMAIN s : Strippable(s[i]) THEN <<>>
    ELSE SubSeq(s, CHOOSE i \in DOMAIN s :
                      ~Strippable(s[i]) /\ \A j \in 1..(i - 1) : Strippable(s[j]),
                Len(s))

RStrip(s, Strippable(_)) ==
    IF \A i \in DOMAIN s : Strippable(s[i]) THEN <<>>
    ELSE SubSeq(s, 1, CHOOSE i \in DOMAIN s :
                         ~Strippable(s[i]) /\ \A j \in (i + 1)..Len(s) : Strippable(s[j]))

\* str.strip()
Strip(s) == RStrip(LStrip(s, IsSpace), IsSpace)

\* str.endswith
EndsWith(s, suffix) ==
    Len(suffix) <= Len(s) /\ SubSeq(s, Len(s) - Len(suffix) + 1, Len(s)) = suffix

\* The place of the first c in s, 0 when there is none.
First(s, c) ==
    IF \E i \in DOMAIN s : s[i] = c THEN CHOOSE i \in DOMAIN s : s[i] = c /\ \A j \in 1..(i - 1) : s[j] # c
    ELSE 0

\* The place of the last c in s, 0 when there is none.
Last(s, c) ==
    IF \E i \in DOMAIN s : s[i] = c
    THEN CHOOSE i \in DOMAIN s : s[i] = c /\ \A j \in (i + 1)..Len(s) : s[j] # c
    ELSE 0

\* s.split(c)
RECURSIVE Split(_, _)
Split(s, c) ==
    IF First(s, c) = 0 THEN <<s>>
    ELSE <<SubSeq(s, 1, First(s, c) - 1)>> \o Split(SubSeq(s, First(s, c) + 1, Len(s)), c)

\* c.join(parts)
RECURSIVE JoinWith(_, _)
JoinWith(c, parts) ==
    IF parts = <<>> THEN <<>>
    ELSE IF Len(parts) = 1 THEN parts[1]
    ELSE parts[1] \o <<c>> \o JoinWith(c, Tail(parts))

\* The name a text spells: the characters as one string, to serve as a key.
RECURSIVE Str(_)
Str(s) == IF s = <<>> THEN "" ELSE Head(s) \o Str(Tail(s))

----------------------------------------------------------------------------
(* loader.py *)

ALIAS_MAP ==
    << <<<<"h","d","l","_","c","h","o","l","e","s","t","e","r","o","l">>,
          <<"H","D","L">>>>,
       <<<<"t","o","t","a","l","_","c","h","o","l","e","s","t","e","r","o","l">>,
          <<"T","o","t","a","l","_","C","h","o","l","e","s","t","e","r","o","l">>>>,
       <<<<"t","r","i","g","l","y","c","e","r","i","d","e","s">>,
          <<"T","r","i","g","l","y","c","e","r","i","d","e","s">>>>,
       <<<<"g","l","u","c","o","s","e","_","f","a","s","t","i","n","g">>,
          <<"G","l","u","c","o","s","e","_","F","a","s","t","i","n","g">>>>,
       <<<<"h","b","a","1","c">>,
          <<"H","b","A","1","c">>>>,
       <<<<"c","r","e","a","t","i","n","i","n","e">>,
          <<"C","r","e","a","t","i","n","i","n","e">>>>,
       <<<<"c","r","p">>,
          <<"C","R","P">>>>,
       <<<<"h","e","m","o","g","l","o","b","i","n">>,
          <<"H","e","m","o","g","l","o","b","i","n">>>>,
       <<<<"p","l","a","t","e","l","e","t","s">>,
          <<"P","l","a","t","e","l","e","t","s">>>>,
       <<<<"m","c","v">>,
          <<"M","C","V">>>>,
       <<<<"m","c","h">>,
          <<"M","C","H">>>>,
       <<<<"m","c","h","c">>,
          <<"M","C","H","C">>>>,
       <<<<"r","d","w">>,
          <<"R","D","W">>>>,
       <<<<"n","e","u","t","r","o","p","h","i","l","s">>,
          <<"N","e","u","t","r","o","p","h","i","l","s">>>>,
       <<<<"l","y","m","p","h","o","c","y","t","e","s">>,
          <<"L","y","m","p","h","o","c","y","t","e","s">>>>,
       <<<<"l","d","l">>,
          <<"L","D","L">>>>,
       <<<<"v","l","d","l">>,
          <<"V","L","D","L">>>>,
       <<<<"u","r","e","a","_","b","u","n">>,
          <<"U","r","e","a","_","B","U","N">>>>,
       <<<<"u","r","e","a">>,
          <<"U","r","e","a","_","B","U","N">>>> >>

ACRONYMS == {<<"h","d","l">>, <<"l","d","l">>, <<"v","l","d","l">>, <<"c","r","p">>, <<"h","b","a","1","c">>, <<"r","b","c">>, <<"w","b","c">>}

META_KEYS ==
    {<<"a","g","e">>,
     <<"g","e","n","d","e","r">>,
     <<"p","a","t","i","e","n","t","_","i","d">>,
     <<"f","i","l","e","n","a","m","e">>,
     <<"r","e","p","o","r","t","_","d","a","t","e">>}

UNDERSCORE == "_"
STATUS_SUFFIX == <<"_","s","t","a","t","u","s">>
STATUS_SUFFIX_SPACED == <<" ","s","t","a","t","u","s">>
NOTE_SUFFIX == <<"_","n","o","t","e">>
NOTE_SUFFIX_SPACED == <<" ","n","o","t","e">>
PERCENT == <<" ","p","e","r","c","e","n","t">>
AGE == <<"a","g","e">>

\* A raw value of the input: no value (an empty or missing CSV cell is the
\* empty string or None, a JSON null is None), a string, or a JSON number,
\* which is known to the loader by the text str() gives for it.
NoCell == [kind |-> "none", s |-> <<>>]
Cell(s) == [kind |-> "str", s |-> s]
NumberCell(s) == [kind |-> "number", s |-> s]

\* re.sub(r"\(([^)]+)\)", r" \1", s): an opening parenthesis, at least one
\* character that is no closing parenthesis, and a closing parenthesis
\* become a space and those characters.
RECURSIVE Unparenthesize(_)
Unparenthesize(s) ==
    IF s = <<>> THEN <<>>
    ELSE LET close == First(Tail(s), ")")
         IN IF Head(s) = "(" /\ close >= 2
            THEN <<" ">> \o SubSeq(Tail(s), 1, close - 1)
                 \o Unparenthesize(SubSeq(Tail(s), close + 1, Len(s) - 1))
            ELSE <<Head(s)>> \o Unparenthesize(Tail(s))

\* s.replace("%", " percent")
RECURSIVE SpellPercent(_)
SpellPercent(s) ==
    IF s = <<>> THEN <<>>
    ELSE (IF Head(s) = "%" THEN PERCENT ELSE <<Head(s)>>) \o SpellPercent(Tail(s))

\* re.sub(r"[^0-9A-Za-z]+", "_", s), then re.sub(r"_+", "_", s): every run
\* of characters that are no letter and no digit becomes one underscore.
RECURSIVE Underscored(_)
Underscored(s) ==
    IF s = <<>> THEN <<>>
    ELSE IF IsAlnum(Head(s)) THEN <<Head(s)>> \o Underscored(Tail(s))
    ELSE <<UNDERSCORE>> \o Underscored(LStrip(s, LAMBDA c : ~IsAlnum(c)))

IsUnderscore(c) == c = UNDERSCORE

\* _normalize_header(h)
_normalize_header(h) ==
    RStrip(LStrip(Underscored(SpellPercent(Unparenthesize(Strip(h)))), IsUnderscore), IsUnderscore)

\* _canonical_key(h)
_canonical_key(h) ==
    LET n == _normalize_header(h)
        key == Lower(n)
        parts == Split(n, UNDERSCORE)
        Cased(part) == IF Lower(part) \in ACRONYMS THEN Upper(part) ELSE Capitalize(part)
    IN IF \E i \in DOMAIN ALIAS_MAP : ALIAS_MAP[i][1] = key
       THEN ALIAS_MAP[CHOOSE i \in DOMAIN ALIAS_MAP : ALIAS_MAP[i][1] = key][2]
       ELSE JoinWith(UNDERSCORE, [i \in DOMAIN parts |-> Cased(parts[i])])

\* re.sub(r"[A-Za-z/°%]+", "", s)
IsUnitCharacter(c) == IsLetter(c) \/ c \in {"/", "°", "%"}

\* Whether int(s) or float(s) reads s: an optional sign, then digits with at
\* most one decimal point among them, and at least one digit.
IsNumeral(s) ==
    LET body == IF s # <<>> /\ Head(s) \in {"+", "-"} THEN Tail(s) ELSE s
        point == First(body, ".")
        whole == IF point = 0 THEN body ELSE SubSeq(body, 1, point - 1)
        fraction == IF point = 0 THEN <<>> ELSE SubSeq(body, point + 1, Len(body))
    IN /\ \A i \in DOMAIN whole : IsDigit(whole[i])
       /\ \A i \in DOMAIN fraction : IsDigit(fraction[i])
       /\ Len(whole) + Len(fraction) >= 1

\* The number int(s) or float(s) gives, in tenths (the first decimal is kept).
NumeralValue(s) ==
    LET negative == s # <<>> /\ Head(s) = "-"
        body == IF s # <<>> /\ Head(s) \in {"+", "-"} THEN Tail(s) ELSE s
        point == First(body, ".")
        whole == IF point = 0 THEN body ELSE SubSeq(body, 1, point - 1)
        fraction == IF point = 0 THEN <<>> ELSE SubSeq(body, point + 1, Len(body))
        tenths == 10 * DigitsValue(whole) + (IF fraction = <<>> THEN 0 ELSE DigitValue(fraction[1]))
    IN IF negative THEN 0 - tenths ELSE tenths

\* _cast_number(s): a number, None, or (when neither int nor float reads
\* what is left of the text) that text itself.
_cast_number(raw) ==
    IF raw.kind = "none" THEN NoValue
    ELSE LET stripped == Strip(raw.s)
             bare == Without(Strip(Without(stripped, IsUnitCharacter)), LAMBDA c : c = ",")
         IN IF stripped = <<>> THEN NoValue
            ELSE IF bare = <<>> THEN NoValue
            ELSE IF IsNumeral(bare) THEN Num(NumeralValue(bare))
            ELSE Text(bare)

\* A dict that remembers the order in which its keys were first set.
EmptyDict == [order |-> <<>>, at |-> <<>>]
Keys(d) == {d.order[i] : i \in DOMAIN d.order}
Set(d, k, v) ==
    [order |-> IF k \in Keys(d) THEN d.order ELSE Append(d.order, k),
     at |-> [j \in Keys(d) \cup {k} |-> IF j = k THEN v ELSE d.at[j]]]

\* The dict csv.DictReader and json.load build from the fields of a record:
\* a header that occurs twice keeps its first place and its last value.
RECURSIVE AsDict(_, _)
AsDict(fields, d) ==
    IF fields = <<>> THEN d
    ELSE AsDict(Tail(fields), Set(d, Head(fields).header, Head(fields).value))

\* result = {"parameters": {}, "status": {}, "notes": {}}; the keys that
\* load_input adds beside these three are kept in `top`.
EmptyResult ==
    [top |-> EmptyDict, parameters |-> EmptyDict, status |-> EmptyDict, notes |-> EmptyDict]

\* (raw_v or "").strip()
StrippedCell(raw) == IF raw.kind = "none" THEN <<>> ELSE Strip(raw.s)

\* One column of the CSV row: the body of `for raw_h, raw_v in row.items()`.
LoadColumn(result, raw_h, raw_v) ==
    LET norm == _normalize_header(raw_h)
        lowkey == Lower(norm)
        base == SubSeq(norm, 1, Last(norm, UNDERSCORE) - 1)
        canonical == _canonical_key(norm)
        val == _cast_number(raw_v)
    IN IF EndsWith(lowkey, STATUS_SUFFIX) \/ EndsWith(lowkey, STATUS_SUFFIX_SPACED)
       THEN IF StrippedCell(raw_v) # <<>>
            THEN [result EXCEPT !.status =
                    Set(@, Str(_canonical_key(base)), Upper(StrippedCell(raw_v)))]
            ELSE result
       ELSE IF EndsWith(lowkey, NOTE_SUFFIX) \/ EndsWith(lowkey, NOTE_SUFFIX_SPACED)
       THEN IF StrippedCell(raw_v) # <<>>
            THEN [result EXCEPT !.notes = Set(@, Str(_canonical_key(base)), StrippedCell(raw_v))]
            ELSE result
       ELSE IF Lower(canonical) \in META_KEYS
       THEN IF Lower(canonical) = AGE
            THEN [result EXCEPT !.top = Set(@, "age", val)]
            ELSE [result EXCEPT !.top =
                    Set(@, Str(canonical),
                        IF raw_v.kind = "none" THEN NoValue ELSE Text(StrippedCell(raw_v)))]
       ELSE IF val.kind \in {"num", "none"}
       THEN [result EXCEPT !.parameters = Set(@, Str(canonical), val)]
       ELSE result

STATUS_WORDS == {<<"L","O","W">>, <<"H","I","G","H">>, <<"N","O","R","M","A","L">>}

\* One member of the JSON object: the body of `for k, v in j.items()`.
LoadMember(result, k, v) ==
    LET key == _canonical_key(k)
        num == _cast_number(v)
        up == Upper(Strip(v.s))
    IN IF Lower(key) \in META_KEYS
       THEN [result EXCEPT !.top =
                Set(@, Str(key), IF v.kind = "none" THEN NoValue
                                 ELSE IF v.kind = "number" THEN _cast_number(v)
                                 ELSE Text(v.s))]
       ELSE IF num.kind \in {"num", "none"}
       THEN [result EXCEPT !.parameters = Set(@, Str(key), num)]
       ELSE IF up \in STATUS_WORDS
       THEN [result EXCEPT !.status = Set(@, Str(key), up)]
       ELSE [result EXCEPT !.notes = Set(@, Str(key), v.s)]

\* for raw_h, raw_v in row.items()
RECURSIVE LoadColumns(_, _, _)
LoadColumns(row, keys, result) ==
    IF keys = <<>> THEN result
    ELSE LoadColumns(row, Tail(keys), LoadColumn(result, Head(keys), row.at[Head(keys)]))

\* for k, v in j.items()
RECURSIVE LoadMembers(_, _, _)
LoadMembers(j, keys, result) ==
    IF keys = <<>> THEN result
    ELSE LoadMembers(j, Tail(keys), LoadMember(result, Head(keys), j.at[Head(keys)]))

\* What a call ends with: a returned value, or a raised exception.
Returns(v) == [raised |-> FALSE, value |-> v, error |-> ""]
Raises(e) == [raised |-> TRUE, value |-> None, error |-> e]

\* load_input when a CSV without a data row is an error.
load_input_blank_raises(file) ==
    IF file.kind \in {"missing", "blank"} THEN Raises("StopIteration")
    ELSE IF file.ext = "json"
    THEN IF file.kind = "malformed" THEN Raises("JSONDecodeError")
         ELSE IF file.kind = "array" THEN Raises("AttributeError")
         ELSE LET j == AsDict(file.fields, EmptyDict)
              IN Returns(LoadMembers(j, j.order, EmptyResult))
    ELSE LET row == AsDict(file.fields, EmptyDict)
         IN Returns(LoadColumns(row, row.order, EmptyResult))

\* load_input(path).  The file at the path is file.ext and file.kind:
\* "missing" (open fails), "malformed" (json.load fails), "array" (JSON, but
\* no object), "blank" (a CSV without a data row: empty, or the header row
\* alone), or "record" (one record, the fields in file.fields).
load_input(file) ==
    IF file.kind = "missing" THEN Raises("FileNotFoundError")
    ELSE IF file.ext = "json"
    THEN IF file.kind \in {"malformed", "blank"} THEN Raises("JSONDecodeError")
         ELSE IF file.kind = "array" THEN Raises("AttributeError")
         ELSE LET j == AsDict(file.fields, EmptyDict)
              IN Returns(LoadMembers(j, j.order, EmptyResult))
    ELSE IF file.kind = "blank" THEN Returns(EmptyResult)
         ELSE LET row == AsDict(file.fields, EmptyDict)
              IN Returns(LoadColumns(row, row.order, EmptyResult))

\* Inputs.  A record has at most MaxFields fields, each a header with a raw
\* value: a laboratory column, a status column, a note column or a metadata
\* column.  A JSON number occurs in JSON input only.
MaxFields == 2

HEMOGLOBIN == <<"H","e","m","o","g","l","o","b","i","n">>

Field(h, v) == [header |-> h, value |-> v]

LabFields ==
    {Field(<<"H","e","m","o","g","l","o","b","i","n">>,
           Cell(<<"6",".","5">>)),
     Field(<<"H","e","m","o","g","l","o","b","i","n">>,
           Cell(<<" ","1","3",".","5"," ","g","/","d","L">>)),
     Field(<<"H","e","m","o","g","l","o","b","i","n">>,
           Cell(<<"1","2","-","1","4">>)),
     Field(<<"H","e","m","o","g","l","o","b","i","n">>,
           Cell(<<>>)),
     Field(<<"h","d","l"," ","c","h","o","l","e","s","t","e","r","o","l">>,
           Cell(<<"n","/","a">>)),
     Field(<<"h","d","l"," ","c","h","o","l","e","s","t","e","r","o","l">>,
           NoCell),
     Field(<<"N","e","u","t","r","o","p","h","i","l","s"," ","(","%",")">>,
           NumberCell(<<"1","0","9",".","6">>))}

StatusFields ==
    {Field(<<"H","e","m","o","g","l","o","b","i","n","_","s","t","a","t","u","s">>,
           Cell(<<"L","O","W">>)),
     Field(<<"H","D","L"," ","C","h","o","l","e","s","t","e","r","o","l"," ","S","t","a","t","u","s">>,
           Cell(<<" ","h","i","g","h"," ">>))}

NoteFields ==
    {Field(<<"H","e","m","o","g","l","o","b","i","n","_","n","o","t","e">>,
           Cell(<<"r","e","c","h","e","c","k">>)),
     Field(<<"H","e","m","o","g","l","o","b","i","n","_","n","o","t","e">>,
           Cell(<<"1","2","-","1","4">>))}

MetaFields ==
    {Field(<<"g","e","n","d","e","r">>,
           Cell(<<"F","e","m","a","l","e">>)),
     Field(<<"A","g","e">>,
           Cell(<<"4","5">>))}

SampleFields == LabFields \cup StatusFields \cup NoteFields \cup MetaFields

CsvFields == {f \in SampleFields : f.value.kind # "number"}

File(ext, kind, fields) == [ext |-> ext, kind |-> kind, fields |-> fields]

InputFiles ==
    {File("csv", "record", fs) : fs \in SeqsUpTo(CsvFields, MaxFields) \ {<<>>}}
    \cup {File("json", "record", fs) : fs \in SeqsUpTo(SampleFields, MaxFields)}
    \cup {File("csv", "blank", fs) : fs \in {<<>>, <<Field(HEMOGLOBIN, NoCell)>>}}
    \cup {File("csv", "missing", <<>>), File("json", "missing", <<>>),
          File("json", "blank", <<>>), File("json", "malformed", <<>>),
          File("json", "array", <<>>)}

InitLoader ==
    /\ pc = "start"
    /\ input_file \in InputFiles
    /\ loaded = None
    /\ GuardIdle /\ CauseIdle /\ ConfIdle /\ SevIdle /\ PatIdle /\ RunIdle

\* model1_struct = load_input(input_path)
LoadInput ==
    /\ pc = "start"
    /\ loaded' = load_input(input_file)
    /\ pc' = "done"
    /\ UNCHANGED <<input_file, guardVars, causeVars, confVars, sevVars, patVars, runVars>>

NextLoader == LoadInput

SpecLoader == InitLoader /\ [][NextLoader]_vars

----------------------------------------------------------------------------
(* Claims about load_input *)

\* The record of the input file as the loader sees it, and what it returned.
Record == AsDict(input_file.fields, EmptyDict)
Loaded == pc = "done" /\ loaded # None /\ input_file.kind = "record" /\ ~loaded.raised

\* A header that ends in the suffix, whatever the case of its letters, and
\* the header of the column it belongs to: the header without the suffix.
HasSuffix(h, suffix) == EndsWith(Lower(h), suffix) /\ Len(h) > Len(suffix)
BaseHeader(h, suffix) == SubSeq(h, 1, Len(h) - Len(suffix))

\* A column that holds a laboratory value: no status, note or metadata column.
LabColumn(h) ==
    /\ ~EndsWith(Lower(_normalize_header(h)), STATUS_SUFFIX)
    /\ ~EndsWith(Lower(_normalize_header(h)), NOTE_SUFFIX)
    /\ Lower(_canonical_key(h)) \notin META_KEYS

\* C17 (as claimed): for CSV and for JSON input, a field with a value whose
\* header ends in _status is in the status map, and one whose header ends
\* in _note is in the notes map, under the canonical name of the header
\* without the suffix; the canonical name of the field's own header is no
\* key of parameters.
C17_SuffixFieldsRoutedForCsvAndJson ==
    Loaded =>
        \A h \in Keys(Record) :
            /\ HasSuffix(h, STATUS_SUFFIX) /\ StrippedCell(Record.at[h]) # <<>> =>
                  /\ Str(_canonical_key(BaseHeader(h, STATUS_SUFFIX))) \in Keys(loaded.value.status)
                  /\ Str(_canonical_key(h)) \notin Keys(loaded.value.parameters)
            /\ HasSuffix(h, NOTE_SUFFIX) /\ StrippedCell(Record.at[h]) # <<>> =>
                  /\ Str(_canonical_key(BaseHeader(h, NOTE_SUFFIX))) \in Keys(loaded.value.notes)
                  /\ Str(_canonical_key(h)) \notin Keys(loaded.value.parameters)

----------------------------------------------------------------------------
(* The parts of the pipeline that model2_runner.py imports and that are    *)
(* not in src/: the medical knowledge graph, the priors, and the risk      *)
(* engine.  They follow the specification: a static table of weighted      *)
(* edges, a map of prior weights, a derived-metrics hook that may be       *)
(* empty, and a cardiovascular band.                                       *)

\* build_medical_kg(): weights in thousandths
MEDICAL_KG ==
    << Edge("Hemoglobin_LOW", "Iron_Deficiency", 500),
       Edge("MCV_LOW", "Iron_Deficiency", 700),
       Edge("MCV_LOW", "Thalassemia", 300),
       Edge("MCV_HIGH", "B12_Deficiency", 700),
       Edge("Platelets_LOW", "Bone_Marrow_Suppression", 500),
       Edge("LDL_HIGH", "Dyslipidemia", 700) >>

BASE_PRIORS == [Iron_Deficiency |-> 100, Thalassemia |-> 50]

\* compute_derived(flat_params)
compute_derived(ps) == <<>>

\* cardio_risk_band(flat_params, derived)
cardio_risk_band(ps, derived) == [band |-> "unknown", score |-> NoValue]

----------------------------------------------------------------------------
(* model2_runner.py: the document run() assembles *)

\* JSON values beside StrVal, DictVal and ListVal: a number, a bool, null,
\* and a string that the pipeline itself wrote (a label, a token, a cause, a
\* canned sentence), kept as the name it is.
NumVal(n) == [t |-> "num", n |-> n]
BoolVal(b) == [t |-> "bool", b |-> b]
NullVal == [t |-> "null"]
NameVal(w) == [t |-> "name", w |-> w]

\* A dict display: the pairs are set in order, a later pair with the key of
\* an earlier one takes its place.
DictFrom(pairs) ==
    DictVal([k \in {pairs[i][1] : i \in DOMAIN pairs} |->
                pairs[CHOOSE i \in DOMAIN pairs :
                         pairs[i][1] = k /\ \A j \in (i + 1)..Len(pairs) : pairs[j][1] # k][2]])

\* A value of the loader (a number, None, text) as a JSON value.
Json(v) ==
    IF v.kind = "none" THEN NullVal
    ELSE IF v.kind = "num" THEN NumVal(v.n)
    ELSE StrVal(v.s)

\* What label_from_range returned, as a JSON value.
LabelJson(l) ==
    DictVal([value |-> Json(l.value), label |-> StrVal(Spelling(l.label)),
             note |-> NameVal(l.note), distance |-> Json(l.distance)])

NamesJson(q) == ListVal([i \in DOMAIN q |-> NameVal(q[i])])

\* What detect_patterns returned, as a JSON value.
PatternJson(info) ==
    DictVal([f \in DOMAIN info |->
        IF f \in {"present", "isolated"} THEN BoolVal(info[f])
        ELSE IF f = "type" THEN (IF info[f] = NoName THEN NullVal ELSE NameVal(info[f]))
        ELSE IF f = "support" THEN NamesJson(info[f])
        ELSE IF f = "severity" THEN StrVal(Spelling(info[f]))
        ELSE IF f = "note" THEN NameVal(info[f])
        ELSE DictVal([d \in DOMAIN info[f] |-> LabelJson(info[f][d])])])

PatternsJson(found) ==
    DictVal([patterns |-> DictVal([n \in DOMAIN found.patterns |-> PatternJson(found.patterns[n])])])

\* What infer_probable_causes returned, as a JSON value.
CausesJson(result) ==
    DictVal([causes |-> ListVal([i \in DOMAIN result.causes |->
                DictVal([cause |-> NameVal(result.causes[i].cause),
                         score |-> NumVal(result.causes[i].score),
                         support |-> NamesJson(result.causes[i].support),
                         source |-> NameVal(result.causes[i].source)])]),
             raw_scores |-> DictVal([c \in DOMAIN result.raw_scores |-> NumVal(result.raw_scores[c])])])

\* What compute_confidence returned, as a JSON value.
ConfidenceJson(c) ==
    DictVal([score |-> NumVal(c.score),
             components |-> DictVal([k \in DOMAIN c.components |-> NumVal(c.components[k])]),
             explanation |-> NameVal(c.explanation)])

CardioJson(c) == DictVal([band |-> NameVal(c.band), score |-> Json(c.score)])

\* A map of the loader as a JSON value.
MapJson(d, Value(_)) == DictVal([k \in Keys(d) |-> Value(d.at[k])])

DISCLAIMER ==
    <<"M","o","d","e","l","-","2"," ","d","e","t","e","r","m","i","n",
      "i","s","t","i","c"," ","+"," ","K","G"," ","r","e","a","s","o",
      "n","i","n","g","."," ","T","h","i","s"," ","o","u","t","p","u",
      "t"," ","i","s"," ","n","o","t"," ","a"," ","d","i","a","g","n",
      "o","s","i","s","."," ","R","e","f","e","r"," ","t","o"," ","c",
      "l","i","n","i","c","i","a","n",".">>

SLASH == "/"
DOT == "."

\* os.path.basename(input_path)
basename(path) == SubSeq(path, Last(path, SLASH) + 1, Len(path))

\* os.path.splitext(base)[0]
base_noext(path) ==
    LET base == basename(path)
    IN IF Last(base, DOT) > 1 THEN SubSeq(base, 1, Last(base, DOT) - 1) ELSE base

\* The metadata with the directory of the input as a third key.
MetadataWithDirectory(path) ==
    DictVal([input_file |-> StrVal(path), base |-> StrVal(base_noext(path)),
             directory |-> StrVal(SubSeq(path, 1, Last(path, SLASH)))])

\* "metadata": {"input_file": input_path, "base": base_noext}
Metadata(path) == DictVal([input_file |-> StrVal(path), base |-> StrVal(base_noext(path))])

\* flat_params: the parameters, with age and gender when model1_struct has
\* the keys "age" and "gender".
FlatParamsOf(m1) ==
    LET Attached(k) == IF k \in Keys(m1.top) THEN {k} ELSE {}
        extra == Attached("age") \cup Attached("gender")
    IN [k \in Keys(m1.parameters) \cup extra |->
            IF k \in extra THEN m1.top.at[k] ELSE m1.parameters.at[k]]

\* missing_params = [k for k, v in parameters.items() if v is None]
MissingParams(m1) ==
    LET IsMissing(k) == m1.parameters.at[k] = NoValue
    IN SelectSeq(m1.parameters.order, IsMissing)

PATTERN_ORDER ==
    <<"anemia", "thrombocytopenia", "neutrophilia", "lymphocytosis", "dyslipidemia",
      "metabolic_syndrome_signals">>

\* The support tokens of the patterns that are present, in the order of
\* patterns.items().
RECURSIVE PatternSupport(_, _)
PatternSupport(found, names) ==
    IF names = <<>> THEN <<>>
    ELSE (IF found.patterns[Head(names)].present THEN found.patterns[Head(names)].support ELSE <<>>)
         \o PatternSupport(found, Tail(names))

key_params ==
    <<"Hemoglobin", "Platelets", "MCV", "RDW", "LDL", "Total_Cholesterol", "Triglycerides",
      "HDL", "Creatinine", "CRP", "Glucose_Fasting", "HbA1c", "Neutrophils", "Lymphocytes">>

LOW_FLAG == <<"L","O","W">>
HIGH_FLAG == <<"H","I","G","H">>

\* The token of one key parameter when the severity label of a numeric
\* value is looked at before the status flag.
KeyParamTokenLabelFirst(m1, ps, param) ==
    LET st == IF param \in Keys(m1.status) THEN m1.status.at[param] ELSE <<>>
        val == Param(ps, param)
        lbl == Spelling(label_from_range(
                   get_reference_range(param, Param(ps, "age"), Param(ps, "gender")), val).label)
    IN IF val.kind = "num"
       THEN IF StartsWith(lbl, LOW) \/ StartsWith(lbl, HIGH) \/ Contains(SEVERE, lbl)
            THEN IF StartsWith(lbl, LOW) THEN <<param \o "_LOW">> ELSE <<param \o "_HIGH">>
            ELSE <<>>
       ELSE IF Contains(LOW_FLAG, Upper(st)) THEN <<param \o "_LOW">>
       ELSE IF Contains(HIGH_FLAG, Upper(st)) THEN <<param \o "_HIGH">>
       ELSE <<>>

\* The token of one key parameter: the body of `for param in key_params`.
KeyParamToken(m1, ps, param) ==
    LET st == IF param \in Keys(m1.status) THEN m1.status.at[param] ELSE <<>>
        val == Param(ps, param)
        lbl == Spelling(label_from_range(
                   get_reference_range(param, Param(ps, "age"), Param(ps, "gender")), val).label)
    IN IF st # <<>>
       THEN IF Contains(LOW_FLAG, Upper(st)) THEN <<param \o "_LOW">>
            ELSE IF Contains(HIGH_FLAG, Upper(st)) THEN <<param \o "_HIGH">>
            ELSE <<>>
       ELSE IF val.kind = "num"
               /\ (StartsWith(lbl, LOW) \/ StartsWith(lbl, HIGH) \/ Contains(SEVERE, lbl))
       THEN IF StartsWith(lbl, LOW) THEN <<param \o "_LOW">> ELSE <<param \o "_HIGH">>
       ELSE <<>>

RECURSIVE KeyParamTokens(_, _, _)
KeyParamTokens(m1, ps, names) ==
    IF names = <<>> THEN <<>>
    ELSE KeyParamToken(m1, ps, Head(names)) \o KeyParamTokens(m1, ps, Tail(names))

\* observations, as handed to infer_probable_causes
ObservationsOf(m1, ps, found) ==
    PatternSupport(found, PATTERN_ORDER) \o KeyParamTokens(m1, ps, key_params)

\* severity_map: a label for every parameter whose value is a number
SeverityMap(m1, ps) ==
    LET numeric == {k \in Keys(m1.parameters) : m1.parameters.at[k].kind = "num"}
    IN [k \in numeric |->
          label_from_range(get_reference_range(k, Param(ps, "age"), Param(ps, "gender")),
                           m1.parameters.at[k])]

\* The patterns as compute_confidence reads them: info.get("present") and
\* info.get("severity", "").
PatternsRead(found) ==
    [n \in DOMAIN found.patterns |->
        [present |-> found.patterns[n].present,
         severity |-> IF "severity" \in DOMAIN found.patterns[n]
                      THEN Spelling(found.patterns[n].severity) ELSE <<>>]]

\* The document of run(): `output` as the dict display builds it.
Output(path, m1) ==
    LET ps == FlatParamsOf(m1)
        missing == MissingParams(m1)
        derived == compute_derived(ps)
        found == detect_patterns(ps)
        causes == infer_probable_causes(MEDICAL_KG, ObservationsOf(m1, ps, found), BASE_PRIORS)
        cardio == cardio_risk_band(ps, derived)
        severity_map == SeverityMap(m1, ps)
        conf == compute_confidence(ps, PatternsRead(found), causes.causes, missing)
    IN DictFrom(<< <<"metadata", Metadata(path)>>,
                   <<"parameters", MapJson(m1.parameters, Json)>>,
                   <<"status", MapJson(m1.status, StrVal)>>,
                   <<"notes", MapJson(m1.notes, StrVal)>>,
                   <<"derived", DictVal(derived)>>,
                   <<"patterns", PatternsJson(found)>>,
                   <<"probable_causes", CausesJson(causes)>>,
                   <<"cardio", CardioJson(cardio)>>,
                   <<"severity", DictVal([k \in DOMAIN severity_map |-> LabelJson(severity_map[k])])>>,
                   <<"confidence", ConfidenceJson(conf)>>,
                   <<"notes", StrVal(DISCLAIMER)>> >>)

----------------------------------------------------------------------------
(* model2_runner.py: run(input_path, output_dir) *)

\* The path of the input file: a directory, a base name and the extension.
CSV == <<"c","s","v">>
JSON == <<"j","s","o","n">>
PathOf(loc, ext) ==
    loc.dir \o <<SLASH>> \o loc.base \o <<DOT>> \o (IF ext = "json" THEN JSON ELSE CSV)

\* An entry that holds the input path alone.
ErrorEntryWithoutMessage(path, e) == [input |-> path, error |-> ""]

\* One entry of error_log.txt: "INPUT: {input_path}\nERROR: {str(e)}\n\n"
ErrorEntry(path, e) == [input |-> path, error |-> e]

\* The local variables of a call of run() that has just started.
Started(path) ==
    [input_path |-> path, model1_struct |-> None, output |-> None, safe_output |-> None,
     exc |-> "", stage |-> "load"]

\* A finished call: its argument and what it ended with.
Call(path, outcome) == [input_path |-> path, outcome |-> outcome]

\* Inputs.  The calls of one behaviour (at most MaxRuns) read files of the
\* same content at paths that differ in directory or in base name; the
\* output file of the base name r2 may be one that cannot be written.
MaxRuns == 2

Locations ==
    { [dir |-> <<"i","n">>, base |-> <<"r","1">>],
      [dir |-> <<"o","l","d">>, base |-> <<"r","1">>],
      [dir |-> <<"i","n">>, base |-> <<"r","2">>] }

\* Scenario A of the specification
ScenarioA ==
    << Field(<<"H","e","m","o","g","l","o","b","i","n">>, Cell(<<"6",".","5">>)),
       Field(<<"M","C","V">>, Cell(<<"1","0","9",".","6">>)),
       Field(<<"P","l","a","t","e","l","e","t","s">>, Cell(<<"1","8","0">>)),
       Field(<<"g","e","n","d","e","r">>, Cell(<<"F","e","m","a","l","e">>)) >>

\* Scenario A with JSON numbers
ScenarioANumbers ==
    << Field(<<"H","e","m","o","g","l","o","b","i","n">>, NumberCell(<<"6",".","5">>)),
       Field(<<"M","C","V">>, NumberCell(<<"1","0","9",".","6">>)),
       Field(<<"P","l","a","t","e","l","e","t","s">>, NumberCell(<<"1","8","0">>)),
       Field(<<"g","e","n","d","e","r">>, Cell(<<"F","e","m","a","l","e">>)) >>

\* every laboratory parameter null
AllNull ==
    << Field(<<"H","e","m","o","g","l","o","b","i","n">>, Cell(<<>>)),
       Field(<<"M","C","V">>, NoCell),
       Field(<<"A","g","e">>, Cell(<<"4","5">>)) >>

\* a null parameter that carries a status flag
NullWithFlag ==
    << Field(<<"M","C","V">>, Cell(<<>>)),
       Field(<<"M","C","V","_","s","t","a","t","u","s">>, Cell(<<"L","O","W">>)) >>

\* a normal value with a note
Noted ==
    << Field(<<"H","e","m","o","g","l","o","b","i","n">>, Cell(<<" ","1","3",".","5"," ","g","/","d","L">>)),
       Field(<<"H","e","m","o","g","l","o","b","i","n","_","n","o","t","e">>, Cell(<<"r","e","c","h","e","c","k">>)) >>

\* a normal value flagged LOW, and a low value without a flag
Flagged ==
    << Field(<<"H","e","m","o","g","l","o","b","i","n">>, Cell(<<"1","3",".","5">>)),
       Field(<<"H","e","m","o","g","l","o","b","i","n","_","s","t","a","t","u","s">>, Cell(<<"L","O","W">>)),
       Field(<<"M","C","V">>, Cell(<<"7","0">>)) >>

\* a value that is no number, and a high value
Uncastable ==
    << Field(<<"M","C","V">>, Cell(<<"1","2","-","1","4">>)),
       Field(<<"L","D","L">>, Cell(<<"1","3","0">>)) >>

\* a severely low value flagged HIGH, and a low value flagged NORMAL
Contradicted ==
    << Field(<<"H","e","m","o","g","l","o","b","i","n">>, Cell(<<"6",".","5">>)),
       Field(<<"H","e","m","o","g","l","o","b","i","n","_","s","t","a","t","u","s">>, Cell(<<"H","I","G","H">>)),
       Field(<<"P","l","a","t","e","l","e","t","s">>, Cell(<<"5","0">>)),
       Field(<<"P","l","a","t","e","l","e","t","s","_","s","t","a","t","u","s">>, Cell(<<"N","O","R","M","A","L">>)) >>

\* a Hemoglobin inside the female range and below the male one
FemaleInRange ==
    << Field(<<"H","e","m","o","g","l","o","b","i","n">>, Cell(<<"1","2",".","5">>)),
       Field(<<"g","e","n","d","e","r">>, Cell(<<"F","e","m","a","l","e">>)),
       Field(<<"a","g","e">>, Cell(<<"4","5">>)) >>

RunRecords ==
    {ScenarioA, ScenarioANumbers, AllNull, NullWithFlag, Noted, Flagged, Uncastable,
     Contradicted, FemaleInRange}

RunInputs ==
    {File("csv", "record", fs) : fs \in RunRecords \ {ScenarioANumbers}}
    \cup {File("json", "record", fs) : fs \in RunRecords}
    \cup {File("csv", "blank", <<Field(HEMOGLOBIN, NoCell)>>), File("csv", "missing", <<>>),
          File("json", "malformed", <<>>)}

InitRun ==
    /\ pc = "idle"
    /\ \E file \in RunInputs, locked \in {{}, {"r2"}} :
          files = [input |-> file, readonly |-> locked, error_log |-> <<>>,
                   json |-> <<>>, txt |-> {}, raw_input |-> {}]
    /\ run = None
    /\ calls = <<>>
    /\ GuardIdle /\ CauseIdle /\ ConfIdle /\ SevIdle /\ PatIdle /\ LoadIdle

idleVars == <<guardVars, causeVars, confVars, sevVars, patVars, loadVars>>

\* run(input_path, output_dir) is called
CallRun ==
    /\ pc = "idle"
    /\ Len(calls) < MaxRuns
    /\ \E loc \in Locations : run' = Started(PathOf(loc, files.input.ext))
    /\ pc' = "called"
    /\ UNCHANGED <<files, calls, idleVars>>

\* The directories, the copy of the raw input (a failure of the copy is
\* swallowed), and model1_struct = load_input(input_path)
Load ==
    /\ pc = "called"
    /\ LET result == load_input(files.input)
           copied == IF files.input.kind = "missing" THEN {} ELSE {Str(basename(run.input_path))}
       IN /\ files' = [files EXCEPT !.raw_input = @ \cup copied]
          /\ IF result.raised
             THEN /\ run' = [run EXCEPT !.exc = result.error]
                  /\ pc' = "except"
             ELSE /\ run' = [run EXCEPT !.model1_struct = result.value, !.stage = "assemble"]
                  /\ pc' = "loaded"
    /\ UNCHANGED <<calls, idleVars>>

\* Steps 1 to 7: the stages, and the document assembled from their results
Assemble ==
    /\ pc = "loaded"
    /\ run' = [run EXCEPT !.output = Output(run.input_path, run.model1_struct),
                          !.stage = "sanitize"]
    /\ pc' = "assembled"
    /\ UNCHANGED <<files, calls, idleVars>>

\* Step 8: safe_output = sanitize_output(output)
SanitizeOutput ==
    /\ pc = "assembled"
    /\ run' = [run EXCEPT !.safe_output = sanitize_output(run.output),
                          !.output = ArgumentAfter(run.output),
                          !.stage = "persist"]
    /\ pc' = "sanitized"
    /\ UNCHANGED <<files, calls, idleVars>>

\* Step 9: the JSON and the text file are written; open() raises for a
\* file that cannot be written
Persist ==
    /\ pc = "sanitized"
    /\ LET base == Str(base_noext(run.input_path))
       IN IF base \in files.readonly
          THEN /\ run' = [run EXCEPT !.exc = "PermissionError"]
               /\ pc' = "except"
               /\ UNCHANGED files
          ELSE /\ files' = [files EXCEPT
                              !.json = [b \in DOMAIN @ \cup {base} |->
                                           IF b = base THEN run.safe_output ELSE @[b]],
                              !.txt = @ \cup {base}]
               /\ pc' = "written"
               /\ UNCHANGED run
    /\ UNCHANGED <<calls, idleVars>>

\* return safe_output
Return ==
    /\ pc = "written"
    /\ calls' = Append(calls, Call(run.input_path, Returns(run.safe_output)))
    /\ pc' = "idle"
    /\ UNCHANGED <<files, run, idleVars>>

\* except Exception as e: the entry is appended to error_log.txt
LogError ==
    /\ pc = "except"
    /\ files' = [files EXCEPT !.error_log = Append(@, ErrorEntry(run.input_path, run.exc))]
    /\ pc' = "logged"
    /\ UNCHANGED <<run, calls, idleVars>>

\* raise
Reraise ==
    /\ pc = "logged"
    /\ calls' = Append(calls, Call(run.input_path, Raises(run.exc)))
    /\ pc' = "idle"
    /\ UNCHANGED <<files, run, idleVars>>

NextRun ==
    \/ CallRun
    \/ Load
    \/ Assemble
    \/ SanitizeOutput
    \/ Persist
    \/ Return
    \/ LogError
    \/ Reraise

SpecRun == InitRun /\ [][NextRun]_vars

----------------------------------------------------------------------------
(* Claims about run() *)

\* The finished calls that returned, the document of a call that returned,
\* and whether the output file of a call can be written.
ReturnedCalls == {i \in DOMAIN calls : ~calls[i].outcome.raised}
RaisedCalls == {i \in DOMAIN calls : calls[i].outcome.raised}
Doc(i) == calls[i].outcome.value
Writable(i) == Str(base_noext(calls[i].input_path)) \notin files.readonly

\* What the loader makes of the input of this behaviour.
Model1 == load_input(files.input).value

\* The input is a record in which every laboratory parameter is null or absent.
EveryParameterNull ==
    /\ files.input.kind = "record"
    /\ LET ps == Model1.parameters
       IN \A k \in Keys(ps) : ps.at[k] = NoValue

\* No key parameter has a status flag that says LOW or HIGH.
NoStatusFlag ==
    LET st == Model1.status
    IN \A i \in DOMAIN key_params :
          key_params[i] \in Keys(st) =>
              /\ ~Contains(LOW_FLAG, Upper(st.at[key_params[i]]))
              /\ ~Contains(HIGH_FLAG, Upper(st.at[key_params[i]]))

DOCUMENT_KEYS ==
    {"metadata", "parameters", "status", "notes", "derived", "patterns", "probable_causes",
     "cardio", "severity", "confidence"}

\* The document is complete and reports nothing: no pattern present, no
\* cause, presence 0.0 and score 0.
ReportsNothing(d) ==
    /\ DOMAIN d.items = DOCUMENT_KEYS
    /\ \A n \in DOMAIN d.items.patterns.items.patterns.items :
          d.items.patterns.items.patterns.items[n].items.present = BoolVal(FALSE)
    /\ d.items.probable_causes.items.causes = ListVal(<<>>)
    /\ d.items.confidence.items.components.items.presence = NumVal(0)
    /\ d.items.confidence.items.score = NumVal(0)

\* C13 (as claimed): for a record in which every laboratory parameter is
\* null or absent, run() (its output file being writable) returns, and the
\* document is complete, with no pattern present, no cause, presence 0.0 and
\* score 0.
C13_AllNullRecordReportsNothing ==
    \A i \in DOMAIN calls :
        EveryParameterNull /\ Writable(i) =>
            ~calls[i].outcome.raised /\ ReportsNothing(Doc(i))

\* C13 (amended): the same, for a record in which moreover no key parameter
\* carries a LOW or HIGH status flag.
C13_AllNullRecordWithoutFlagReportsNothing ==
    \A i \in DOMAIN calls :
        EveryParameterNull /\ NoStatusFlag /\ Writable(i) =>
            ~calls[i].outcome.raised /\ ReportsNothing(Doc(i))

\* C13 witness: run() has returned on the record with Hemoglobin and MCV
\* null, and its document reports nothing.
C13_Witness ==
    /\ EveryParameterNull /\ NoStatusFlag
    /\ Keys(Model1.parameters) # {}
    /\ \E i \in ReturnedCalls : ReportsNothing(Doc(i))

\* The document without the given keys of its metadata.
WithoutMetadata(d, dropped) ==
    DictVal([k \in DOMAIN d.items |->
        IF k = "metadata"
        THEN DictVal([m \in DOMAIN d.items.metadata.items \ dropped |-> d.items.metadata.items[m]])
        ELSE d.items[k]])

C16_ErrorLoggedThenReraised ==
    [][ /\ pc = "except" /\ run.stage # "load" =>
              /\ files'.error_log =
                    Append(files.error_log, [input |-> run.input_path, error |-> run.exc])
              /\ calls' = calls
        /\ calls' # calls /\ calls'[Len(calls')].outcome.raised =>
              /\ pc = "logged"
              /\ calls'[Len(calls')] = Call(run.input_path, Raises(run.exc))
              /\ files.error_log # <<>>
              /\ files.error_log[Len(files.error_log)]
                    = [input |-> run.input_path, error |-> run.exc]
        /\ calls' # calls /\ ~calls'[Len(calls')].outcome.raised => pc = "written"
        /\ pc # "except" => files'.error_log = files.error_log ]_vars

\* C16 witness: writing the output has failed, the entry is in the log and
\* the exception has reached the caller.
C16_Witness ==
    \E i \in RaisedCalls :
        /\ calls[i].outcome.error = "PermissionError"
        /\ [input |-> calls[i].input_path, error |-> "PermissionError"] \in Range(files.error_log)

BlankCsv == files.input.ext = "csv" /\ files.input.kind = "blank"

C20_NotesMapInDocument ==
    \A i \in ReturnedCalls :
        LET notes == Model1.notes
        IN Keys(notes) # {} =>
            /\ Doc(i).items.notes.t = "dict"
            /\ \A k \in Keys(notes) :
                  /\ k \in DOMAIN Doc(i).items.notes.items
                  /\ Doc(i).items.notes.items[k] \in {StrVal(notes.at[k]), StrVal(REDACTED)}
            /\ \E k \in DOMAIN Doc(i).items \ {"notes"} : Doc(i).items[k] = StrVal(DISCLAIMER)

----------------------------------------------------------------------------
(* More claims about sanitize_output *)

\* The paths, from v, of the values that are neither a string, a dict nor a
\* list: values of dict keys and elements of lists, at any depth.
RECURSIVE OtherPaths(_)
OtherPaths(v) ==
    IF v.t = "dict"
    THEN UNION {{<<KeyStep(k)>> \o p : p \in OtherPaths(v.items[k])} : k \in DOMAIN v.items}
    ELSE IF v.t = "list"
    THEN UNION {{<<IdxStep(i)>> \o p : p \in OtherPaths(v.elems[i])} : i \in DOMAIN v.elems}
    ELSE IF v.t = "other" THEN {<<>>}
    ELSE {}

C29_SecondPassChangesNothing ==
    pc = "done" => sanitize_output(cleaned) = cleaned

\* C29 witness: the first pass has redacted a string and renamed the
\* recommendations key, and the second pass returns the same document.
C29_Witness ==
    /\ pc = "done"
    /\ RECOMMENDATIONS \in DOMAIN output0.items
    /\ REDACTED \in AllStrings(cleaned)
    /\ RECOMMENDATIONS_REMOVED \in DOMAIN cleaned.items
    /\ sanitize_output(cleaned) = cleaned

\* C30 (as claimed): after sanitize_output the caller's document, with
\* every nested dict and list, is what it was before the call.
C30_ArgumentUnchanged ==
    pc = "done" => output = output0

----------------------------------------------------------------------------
(* Claims about the observations and the parameters of run() *)

\* The call in progress, or the last one, has loaded its record.
HasModel1 == run # None /\ run.model1_struct # None

\* The label run() computes for a key parameter in the fallback of the
\* status pass.
LabelOf(ps, param) ==
    label_from_range(get_reference_range(param, Param(ps, "age"), Param(ps, "gender")),
                     Param(ps, param)).label

\* C21: for a key parameter with the status flag LOW, HIGH or NORMAL the
\* token of the status pass is <Param>_LOW, <Param>_HIGH or none, whatever
\* the severity label of its value.
C21_FlagAloneDecidesToken ==
    HasModel1 =>
        LET m1 == run.model1_struct
            ps == FlatParamsOf(m1)
        IN \A i \in DOMAIN key_params :
              LET param == key_params[i]
              IN param \in Keys(m1.status) /\ m1.status.at[param] \in STATUS_WORDS =>
                    KeyParamToken(m1, ps, param) =
                        IF m1.status.at[param] = LOW_FLAG THEN <<param \o "_LOW">>
                        ELSE IF m1.status.at[param] = HIGH_FLAG THEN <<param \o "_HIGH">>
                        ELSE <<>>

\* C21 witness: run() has returned on a record whose very low Platelets
\* value is flagged NORMAL and whose severely low Hemoglobin value is
\* flagged HIGH; the tokens follow the flags.
C21_Witness ==
    /\ HasModel1
    /\ ReturnedCalls # {}
    /\ LET m1 == run.model1_struct
           ps == FlatParamsOf(m1)
       IN /\ {"Platelets", "Hemoglobin"} \subseteq Keys(m1.status)
          /\ m1.status.at["Platelets"] = <<"N","O","R","M","A","L">>
          /\ m1.status.at["Hemoglobin"] = HIGH_FLAG
          /\ LabelOf(ps, "Platelets") = "very_severe_low"
          /\ LabelOf(ps, "Hemoglobin") = "severe_low"
          /\ KeyParamToken(m1, ps, "Platelets") = <<>>
          /\ KeyParamToken(m1, ps, "Hemoglobin") = <<"Hemoglobin_HIGH">>

\* The header of a field of the input record, in lower case, is the name.
IsField(i, name) == Lower(Strip(files.input.fields[i].header)) = name

GENDER == <<"g","e","n","d","e","r">>

\* C23 (as claimed): when the input record has a gender or an age, the
\* loaded record has it under the key gender or age, and the flat
\* parameters handed to detect_patterns and label_from_range hold the
\* gender of the record.
C23_GenderAndAgeReachTheStages ==
    HasModel1 =>
        LET m1 == run.model1_struct
            ps == FlatParamsOf(m1)
        IN \A i \in DOMAIN files.input.fields :
              /\ IsField(i, AGE) => "age" \in Keys(m1.top) /\ "age" \in DOMAIN ps
              /\ IsField(i, GENDER) =>
                    /\ "gender" \in Keys(m1.top)
                    /\ "gender" \in DOMAIN ps
                    /\ ps["gender"] = Text(Strip(files.input.fields[i].value.s))

\* C27 (as claimed): for a key parameter without a status flag the token
\* of the status pass has the direction of the severity label of its value.
C27_TokenHasDirectionOfLabel ==
    HasModel1 =>
        LET m1 == run.model1_struct
            ps == FlatParamsOf(m1)
        IN \A i \in DOMAIN key_params :
              LET param == key_params[i]
                  l == LabelOf(ps, param)
              IN param \notin Keys(m1.status) =>
                    KeyParamToken(m1, ps, param) =
                        IF l \in {"low", "severe_low", "very_severe_low"} THEN <<param \o "_LOW">>
                        ELSE IF l \in {"high", "severe_high", "very_severe_high"}
                        THEN <<param \o "_HIGH">>
                        ELSE <<>>

\* C28 (as claimed): the observations handed to infer_probable_causes hold
\* each token at most once.
C28_EachObservationOnce ==
    HasModel1 =>
        LET m1 == run.model1_struct
            ps == FlatParamsOf(m1)
            obs == ObservationsOf(m1, ps, detect_patterns(ps))
        IN \A i, j \in DOMAIN obs : obs[i] = obs[j] => i = j

----------------------------------------------------------------------------
(* More claims about detect_patterns *)

\* C24 (as claimed): anemia is present exactly when the Hemoglobin value is
\* below its reference low; otherwise the type is null and Hemoglobin_LOW
\* is not in the support.
C24_AnemiaExactlyWhenHemoglobinBelowRange ==
    pc = "done" /\ detected # None =>
        /\ detected.patterns.anemia.present <=> BelowRange("Hemoglobin")
        /\ ~BelowRange("Hemoglobin") =>
              /\ detected.patterns.anemia.type = NoName
              /\ "Hemoglobin_LOW" \notin Range(detected.patterns.anemia.support)

\* C25 (as claimed): thrombocytopenia is isolated only if Platelets is
\* below its reference low and neither WBC nor Hemoglobin is below its own.
C25_IsolatedOnlyWithoutLowCompanions ==
    pc = "done" /\ detected # None =>
        (detected.patterns.thrombocytopenia.isolated =>
            /\ BelowRange("Platelets")
            /\ ~BelowRange("WBC")
            /\ ~BelowRange("Hemoglobin"))

\* C26 (as claimed): every element of the support of every pattern is
\* <Param>_LOW for a parameter whose value is below its reference range or
\* <Param>_HIGH for one whose value is above it.
C26_SupportNamesTriggeringParameters ==
    pc = "done" /\ detected # None =>
        \A n \in DOMAIN detected.patterns :
            \A token \in Range(detected.patterns[n].support) :
                \E param \in DOMAIN REFERENCE_RANGES :
                    \/ token = param \o "_LOW" /\ BelowRange(param)
                    \/ token = param \o "_HIGH" /\ AboveRange(param)

====
